---- MODULE Spec2Model ----
(***************************************************************************)
(* A model of the riet Piet interpreter: the program (codel grid and       *)
(* colour blocks, src/program), and the interpreter of src/interpreter.rs  *)
(* (traversal, instruction dispatch and the stack operations).             *)
(***************************************************************************)
EXTENDS Integers, Sequences, FiniteSets, TLC

VARIABLES program, state, step_no, stdout, status, max_steps, last

vars == <<program, state, step_no, stdout, status, max_steps, last>>

(***************************************************************************)
(* Bounds of the model.                                                    *)
(***************************************************************************)
\* longest base stack (below the operands) drawn for a single operation
MaxBase == 5
\* operands of a single operation are drawn from -MaxArg .. MaxArg
MaxArg == 5
\* a run is followed while its stack holds at most MaxStack entries
MaxStack == 3
\* a run is followed while it has written at most MaxOut characters
MaxOut == 4
\* step_no is counted exactly up to StepCap and saturates there
StepCap == 6
\* run_until is started with max_steps in 0 .. MaxSteps
MaxSteps == 2
\* a run is followed while the entries of its stack stay within -MaxVal .. MaxVal
MaxVal == 6

(***************************************************************************)
(* Option values: None and Some(x).                                        *)
(***************************************************************************)
None == <<>>

Some(x) == <<x>>

unwrap(o) == o[1]

Abs(n) == IF n < 0 THEN -n ELSE n

(***************************************************************************)
(* program/color.rs                                                        *)
(***************************************************************************)
LightColors ==
    {"LightRed", "LightYellow", "LightGreen", "LightCyan", "LightBlue", "LightMagenta"}

NormalColors == {"Red", "Yellow", "Green", "Cyan", "Blue", "Magenta"}

DarkColors ==
    {"DarkRed", "DarkYellow", "DarkGreen", "DarkCyan", "DarkBlue", "DarkMagenta"}

Color == {"White", "Black"} \cup LightColors \cup NormalColors \cup DarkColors

hue_number(c) ==
    CASE c \in {"LightRed", "Red", "DarkRed"}             -> Some(0)
      [] c \in {"LightYellow", "Yellow", "DarkYellow"}    -> Some(1)
      [] c \in {"LightGreen", "Green", "DarkGreen"}       -> Some(2)
      [] c \in {"LightCyan", "Cyan", "DarkCyan"}          -> Some(3)
      [] c \in {"LightBlue", "Blue", "DarkBlue"}          -> Some(4)
      [] c \in {"LightMagenta", "Magenta", "DarkMagenta"} -> Some(5)
      [] c \in {"White", "Black"}                         -> None

lightness_number(c) ==
    CASE c \in LightColors        -> Some(0)
      [] c \in NormalColors       -> Some(1)
      [] c \in DarkColors         -> Some(2)
      [] c \in {"White", "Black"} -> None

\* i32::rem_euclid with a positive modulus
rem_euclid(n, m) == n % m

hue_change(c1, c2) ==
    IF hue_number(c1) = None \/ hue_number(c2) = None
    THEN None
    ELSE Some(rem_euclid(unwrap(hue_number(c2)) - unwrap(hue_number(c1)), 6))

\* the lightness change counted from the destination to the source
lightness_change_backwards(c1, c2) ==
    IF lightness_number(c1) = None \/ lightness_number(c2) = None
    THEN None
    ELSE Some(rem_euclid(unwrap(lightness_number(c1)) - unwrap(lightness_number(c2)), 3))

lightness_change(c1, c2) ==
    IF lightness_number(c1) = None \/ lightness_number(c2) = None
    THEN None
    ELSE Some(rem_euclid(unwrap(lightness_number(c2)) - unwrap(lightness_number(c1)), 3))

(***************************************************************************)
(* program/mod.rs: DirectionPointer and CodelChooser                       *)
(***************************************************************************)
DirectionPointer == {"Right", "Left", "Down", "Up"}

CodelChooser == {"Left", "Right"}

rotate_clockwise(dp) ==
    CASE dp = "Right" -> "Down"
      [] dp = "Down"  -> "Left"
      [] dp = "Left"  -> "Up"
      [] dp = "Up"    -> "Right"

toggle(cc) ==
    CASE cc = "Right" -> "Left"
      [] cc = "Left"  -> "Right"

(***************************************************************************)
(* program/point.rs                                                        *)
(***************************************************************************)
Point(row, col) == <<row, col>>

next_in_direction(p, dp, prog) ==
    CASE dp = "Down"  /\ p[1] + 1 < prog.rows -> Some(Point(p[1] + 1, p[2]))
      [] dp = "Up"    /\ p[1] - 1 >= 0        -> Some(Point(p[1] - 1, p[2]))
      [] dp = "Right" /\ p[2] + 1 < prog.cols -> Some(Point(p[1], p[2] + 1))
      [] dp = "Left"  /\ p[2] - 1 >= 0        -> Some(Point(p[1], p[2] - 1))
      [] OTHER                                -> None

(***************************************************************************)
(* program/color_block.rs                                                  *)
(***************************************************************************)
\* the keys of ColorBlock::edges, in the order add_codel fills them
EdgeKeys ==
    << <<"Up", "Left">>, <<"Up", "Right">>, <<"Down", "Left">>, <<"Down", "Right">>,
       <<"Left", "Left">>, <<"Left", "Right">>, <<"Right", "Left">>, <<"Right", "Right">> >>

\* Ord::cmp on u32
cmp(a, b) == IF a < b THEN "Less" ELSE IF a = b THEN "Equal" ELSE "Greater"

\* the match of add_codel: does (row, col) replace the edge `point` of (dp, cc)?
edge_replaced(dp, cc, row, col, point) ==
    LET c == cmp(col, point[2])
        r == cmp(row, point[1])
    IN  \/ dp = "Up"    /\ cc = "Left"  /\ c = "Less"    /\ r = "Equal"
        \/ dp = "Up"    /\ cc = "Right" /\ c = "Greater" /\ r = "Equal"
        \/ dp = "Down"  /\ cc = "Left"  /\ c = "Greater" /\ r = "Equal"
        \/ dp = "Down"  /\ cc = "Right" /\ c = "Less"    /\ r = "Equal"
        \/ dp = "Right" /\ cc = "Left"  /\ c = "Equal"   /\ r = "Less"
        \/ dp = "Right" /\ cc = "Right" /\ c = "Equal"   /\ r = "Greater"
        \/ dp = "Left"  /\ cc = "Left"  /\ c = "Equal"   /\ r = "Greater"
        \/ dp = "Left"  /\ cc = "Right" /\ c = "Equal"   /\ r = "Less"
        \/ dp = "Down"  /\ r = "Greater"
        \/ dp = "Up"    /\ r = "Less"
        \/ dp = "Left"  /\ c = "Less"
        \/ dp = "Right" /\ c = "Greater"

add_codel(cb, row, col) ==
    LET point == Point(row, col)
    IN  [cb EXCEPT
            !.area = @ \cup {point},
            !.edges =
                IF DOMAIN cb.edges = {}
                THEN [k \in {EdgeKeys[i] : i \in 1..8} |-> point]
                ELSE [k \in DOMAIN cb.edges |->
                        IF edge_replaced(k[1], k[2], row, col, cb.edges[k])
                        THEN point
                        ELSE cb.edges[k]]]

ColorBlock_new(color, row, col) ==
    add_codel([color |-> color, area |-> {}, edges |-> <<>>], row, col)

num_codels(cb) == Cardinality(cb.area)

\* the edge codel of the opposite side of the block
edge_opposite_side(cb, dp, cc) == cb.edges[<<rotate_clockwise(rotate_clockwise(dp)), cc>>]

edge(cb, dp, cc) == cb.edges[<<dp, cc>>]

(***************************************************************************)
(* program/mod.rs: Program.  `blocks` maps a point to the handle of its    *)
(* block (the Rc), named after the point that created the block; `cb` is   *)
(* the ColorBlock each live handle refers to.                              *)
(***************************************************************************)
get_codel(prog, row, col) ==
    IF row >= 0 /\ col >= 0 /\ row < prog.rows /\ col < prog.cols
    THEN Some(prog.codels[row * prog.cols + col + 1])
    ELSE None

get_color_block(prog, point) ==
    IF point \in DOMAIN prog.blocks
    THEN Some(prog.cb[prog.blocks[point]])
    ELSE None

\* step 2 of merge_color_blocks left out: the edges of bigger stay as they were
add_edges_skipped(bigger, smaller, i) == bigger

\* step 2 of merge_color_blocks: bigger.add_codel for the edge points of smaller
RECURSIVE add_edges(_, _, _)
add_edges(bigger, smaller, i) ==
    IF i > 8
    THEN bigger
    ELSE LET pt == smaller.edges[EdgeKeys[i]]
         IN  add_edges(add_codel(bigger, pt[1], pt[2]), smaller, i + 1)

\* step 3 of merge_color_blocks left out: the positions of smaller keep their handle
merge_color_blocks_keeps_handles(prog, point1, point2) ==
    LET block1 == prog.cb[prog.blocks[point1]]
        block2 == prog.cb[prog.blocks[point2]]
    IN  IF block1.area = block2.area
        THEN prog
        ELSE LET swap == num_codels(block1) < num_codels(block2)
                 bigger_point == IF swap THEN point2 ELSE point1
                 smaller_point == IF swap THEN point1 ELSE point2
                 hb == prog.blocks[bigger_point]
                 hs == prog.blocks[smaller_point]
                 smaller == prog.cb[hs]
                 extended == [prog.cb[hb] EXCEPT !.area = @ \cup smaller.area]
                 bigger == add_edges(extended, smaller, 1)
             IN  [prog EXCEPT !.cb = [h \in DOMAIN prog.cb |->
                                         IF h = hb THEN bigger ELSE prog.cb[h]]]

merge_color_blocks(prog, point1, point2) ==
    LET block1 == prog.cb[prog.blocks[point1]]
        block2 == prog.cb[prog.blocks[point2]]
    IN  IF block1.area = block2.area
        THEN prog
        ELSE LET swap == num_codels(block1) < num_codels(block2)
                 bigger_point == IF swap THEN point2 ELSE point1
                 smaller_point == IF swap THEN point1 ELSE point2
                 hb == prog.blocks[bigger_point]
                 hs == prog.blocks[smaller_point]
                 smaller == prog.cb[hs]
                 extended == [prog.cb[hb] EXCEPT !.area = @ \cup smaller.area]
                 bigger == add_edges(extended, smaller, 1)
             IN  [prog EXCEPT
                     !.cb = [h \in (DOMAIN prog.cb) \ {hs} |->
                                IF h = hb THEN bigger ELSE prog.cb[h]],
                     !.blocks = [q \in DOMAIN prog.blocks |->
                                    IF q \in smaller.area THEN hb ELSE prog.blocks[q]]]

\* the neighbours array without the neighbours to the left and to the right
neighbours_vertical_only(prog, row, col) ==
    << IF row - 1 >= 0 THEN Some(Point(row - 1, col)) ELSE None,
       IF row + 1 < prog.rows THEN Some(Point(row + 1, col)) ELSE None,
       None,
       None >>

\* the neighbours array of new_from_imagebuffer
neighbours(prog, row, col) ==
    << IF row - 1 >= 0 THEN Some(Point(row - 1, col)) ELSE None,
       IF row + 1 < prog.rows THEN Some(Point(row + 1, col)) ELSE None,
       IF col - 1 >= 0 THEN Some(Point(row, col - 1)) ELSE None,
       IF col + 1 < prog.cols THEN Some(Point(row, col + 1)) ELSE None >>

\* the body of the loop over the neighbours: merge with neighbour n if it has a block
\* of the same colour
merge_neighbour(prog, row, col, n) ==
    IF /\ n # None
       /\ unwrap(n) \in DOMAIN prog.blocks
       /\ prog.cb[prog.blocks[unwrap(n)]].color = unwrap(get_codel(prog, row, col))
    THEN merge_color_blocks(prog, Point(row, col), unwrap(n))
    ELSE prog

\* the new block of (row, col) inserted into blocks
insert_block(prog, row, col) ==
    [prog EXCEPT
        !.blocks = [q \in (DOMAIN prog.blocks) \cup {Point(row, col)} |->
                       IF q = Point(row, col) THEN Point(row, col) ELSE prog.blocks[q]],
        !.cb = [h \in (DOMAIN prog.cb) \cup {Point(row, col)} |->
                   IF h = Point(row, col)
                   THEN ColorBlock_new(unwrap(get_codel(prog, row, col)), row, col)
                   ELSE prog.cb[h]]]

\* one iteration of the block-filling loops: a new block for (row, col), then the loop
\* over its four neighbours
fill_codel(prog, row, col) ==
    merge_neighbour(
        merge_neighbour(
            merge_neighbour(
                merge_neighbour(insert_block(prog, row, col),
                                row, col, neighbours(prog, row, col)[1]),
                row, col, neighbours(prog, row, col)[2]),
            row, col, neighbours(prog, row, col)[3]),
        row, col, neighbours(prog, row, col)[4])

\* Program as new_from_imagebuffer has it before its block-filling loops
Program_new(codels, rows, cols) ==
    [codels |-> codels, rows |-> rows, cols |-> cols, blocks |-> <<>>, cb |-> <<>>]

\* the number of codels the block-filling loops have done
filled(prog) == Cardinality(DOMAIN prog.blocks)

\* the block-filling loops run over the columns, and over the rows within a column
fill_next(prog) == fill_codel(prog, filled(prog) % prog.rows, filled(prog) \div prog.rows)

(***************************************************************************)
(* Arithmetic of num_bigint::BigInt: `/` truncates toward zero and `%` is  *)
(* the remainder of that division (it has the sign of the dividend).       *)
(***************************************************************************)
bigint_div(b, a) ==
    IF (b < 0) = (a < 0)
    THEN Abs(b) \div Abs(a)
    ELSE -(Abs(b) \div Abs(a))

bigint_rem(b, a) == b - a * bigint_div(b, a)

\* BigInt::bit(0), the low bit of the two's complement representation
bit0(n) == n % 2 = 1

(***************************************************************************)
(* Vec and slice operations used on the stack.  The top of the stack is    *)
(* the last element.                                                       *)
(***************************************************************************)
vec_push(v, x) == Append(v, x)

vec_pop(v) == SubSeq(v, 1, Len(v) - 1)

vec_last(v) == v[Len(v)]

\* <[T]>::rotate_left(mid): the first mid elements move to the end
rotate_left(v, mid) == SubSeq(v, mid + 1, Len(v)) \o SubSeq(v, 1, mid)

\* <[T]>::rotate_right(k): the last k elements move to the front
rotate_right(v, k) == SubSeq(v, Len(v) - k + 1, Len(v)) \o SubSeq(v, 1, Len(v) - k)

(***************************************************************************)
(* The standard streams.  Text is a sequence of character codes.           *)
(***************************************************************************)
RECURSIVE digits(_)
digits(n) == IF n < 10 THEN <<48 + n>> ELSE Append(digits(n \div 10), 48 + (n % 10))

\* Display of a BigInt: base 10, with a leading '-' when negative
to_string(n) == IF n < 0 THEN <<45>> \o digits(-n) ELSE digits(n)

is_whitespace(c) == c \in {9, 10, 11, 12, 13, 32}

RECURSIVE trim_start(_)
trim_start(t) ==
    IF t # <<>> /\ is_whitespace(t[1]) THEN trim_start(Tail(t)) ELSE t

RECURSIVE trim_end(_)
trim_end(t) ==
    IF t # <<>> /\ is_whitespace(t[Len(t)]) THEN trim_end(vec_pop(t)) ELSE t

trim(t) == trim_end(trim_start(t))

RECURSIVE parse_digits(_, _)
parse_digits(t, acc) ==
    IF t = <<>>
    THEN Some(acc)
    ELSE IF t[1] \in 48..57
         THEN parse_digits(Tail(t), 10 * acc + (t[1] - 48))
         ELSE None

\* str::parse::<BigInt>: an optional sign followed by at least one decimal digit
parse_bigint(t) ==
    LET neg == t # <<>> /\ t[1] = 45
        body == IF t # <<>> /\ t[1] \in {43, 45} THEN Tail(t) ELSE t
        mag == IF body = <<>> THEN None ELSE parse_digits(body, 0)
    IN  IF mag = None THEN None
        ELSE IF neg THEN Some(-unwrap(mag)) ELSE mag

\* the conversion accepting every code point up to 0x10FFFF, the surrogates too
from_u32_with_surrogates(n) ==
    IF 0 <= n /\ n <= 1114111
    THEN Some(n)
    ELSE None

\* char::from_u32 after BigInt::to_u32: the value is a Unicode scalar value
from_u32(n) ==
    IF (0 <= n /\ n <= 55295) \/ (57344 <= n /\ n <= 1114111)
    THEN Some(n)
    ELSE None

(***************************************************************************)
(* interpreter.rs: the stack operations.  Each takes the PietState `s` and *)
(* gives the outcome [state, written, result]: the state it leaves, the    *)
(* text it wrote to stdout, and "Ok", "Panic" (the process aborts) or      *)
(* "Err" (an anyhow error is returned).                                    *)
(***************************************************************************)
Done(s) == [state |-> s, written |-> <<>>, result |-> "Ok"]

Wrote(s, text) == [state |-> s, written |-> text, result |-> "Ok"]

Panic(s) == [state |-> s, written |-> <<>>, result |-> "Panic"]

Bail(s) == [state |-> s, written |-> <<>>, result |-> "Err"]

\* push putting 1 on the stack whatever the value handed to it
push_always_one(s, v) == Done([s EXCEPT !.stack = vec_push(@, 1)])

push(s, v) == Done([s EXCEPT !.stack = vec_push(@, v)])

pop(s) ==
    IF s.stack = <<>>
    THEN Done(s)
    ELSE Done([s EXCEPT !.stack = vec_pop(@)])

add(s) ==
    IF Len(s.stack) >= 2
    THEN LET a == vec_last(s.stack)
             b == vec_last(vec_pop(s.stack))
         IN  Done([s EXCEPT !.stack = vec_push(vec_pop(vec_pop(@)), a + b)])
    ELSE Done(s)

\* subtract taking the second value from the top one
subtract_reversed(s) ==
    IF Len(s.stack) >= 2
    THEN LET a == vec_last(s.stack)
             b == vec_last(vec_pop(s.stack))
         IN  Done([s EXCEPT !.stack = vec_push(vec_pop(vec_pop(@)), a - b)])
    ELSE Done(s)

subtract(s) ==
    IF Len(s.stack) >= 2
    THEN LET a == vec_last(s.stack)
             b == vec_last(vec_pop(s.stack))
         IN  Done([s EXCEPT !.stack = vec_push(vec_pop(vec_pop(@)), b - a)])
    ELSE Done(s)

multiply(s) ==
    IF Len(s.stack) >= 2
    THEN LET a == vec_last(s.stack)
             b == vec_last(vec_pop(s.stack))
         IN  Done([s EXCEPT !.stack = vec_push(vec_pop(vec_pop(@)), a * b)])
    ELSE Done(s)

\* divide rounding the quotient down instead of toward zero
divide_floored(s) ==
    IF Len(s.stack) >= 2
    THEN LET a == vec_last(s.stack)
             b == vec_last(vec_pop(s.stack))
             popped == [s EXCEPT !.stack = vec_pop(vec_pop(@))]
         IN  IF a = 0
             THEN Done(popped)
             ELSE Done([popped EXCEPT !.stack =
                           vec_push(@, IF a > 0 THEN b \div a ELSE (-b) \div (-a))])
    ELSE Done(s)

\* divide returning an error to step when the divisor is zero
divide_by_zero_is_error(s) ==
    IF Len(s.stack) >= 2
    THEN LET a == vec_last(s.stack)
             b == vec_last(vec_pop(s.stack))
             popped == [s EXCEPT !.stack = vec_pop(vec_pop(@))]
         IN  IF a = 0
             THEN Bail(s)
             ELSE Done([popped EXCEPT !.stack = vec_push(@, bigint_div(b, a))])
    ELSE Done(s)

divide(s) ==
    IF Len(s.stack) >= 2
    THEN LET a == vec_last(s.stack)
             b == vec_last(vec_pop(s.stack))
             popped == [s EXCEPT !.stack = vec_pop(vec_pop(@))]
         IN  IF a = 0
             THEN Done(popped)
             ELSE Done([popped EXCEPT !.stack = vec_push(@, bigint_div(b, a))])
    ELSE Done(s)

\* mod without the normalisation to the sign of the divisor
mod_truncated(s) ==
    IF Len(s.stack) >= 2
    THEN LET a == vec_last(s.stack)
             b == vec_last(vec_pop(s.stack))
             popped == [s EXCEPT !.stack = vec_pop(vec_pop(@))]
         IN  IF a = 0
             THEN Done(popped)
             ELSE Done([popped EXCEPT !.stack = vec_push(@, bigint_rem(b, a))])
    ELSE Done(s)

mod(s) ==
    IF Len(s.stack) >= 2
    THEN LET a == vec_last(s.stack)
             b == vec_last(vec_pop(s.stack))
             popped == [s EXCEPT !.stack = vec_pop(vec_pop(@))]
         IN  IF a = 0
             THEN Done(popped)
             ELSE Done([popped EXCEPT
                           !.stack = vec_push(@, bigint_rem(a + bigint_rem(b, a), a))])
    ELSE Done(s)

\* not taking a missing operand for zero
not_missing_is_zero(s) ==
    IF s.stack = <<>>
    THEN Done([s EXCEPT !.stack = <<1>>])
    ELSE LET val == vec_last(s.stack)
         IN  Done([s EXCEPT
                      !.stack = vec_push(vec_pop(@), IF val = 0 THEN 1 ELSE 0)])

not(s) ==
    IF s.stack = <<>>
    THEN Done(s)
    ELSE LET val == vec_last(s.stack)
         IN  Done([s EXCEPT
                      !.stack = vec_push(vec_pop(@), IF val = 0 THEN 1 ELSE 0)])

greater(s) ==
    IF Len(s.stack) >= 2
    THEN LET a == vec_last(s.stack)
             b == vec_last(vec_pop(s.stack))
         IN  Done([s EXCEPT
                      !.stack = vec_push(vec_pop(vec_pop(@)), IF b > a THEN 1 ELSE 0)])
    ELSE Done(s)

\* the loop of pointer: dp rotated clockwise `turns` times
RECURSIVE rotate_times(_, _)
rotate_times(dp, turns) ==
    IF turns = 0 THEN dp ELSE rotate_times(rotate_clockwise(dp), turns - 1)

\* pointer dropping the rotated value instead of storing it
pointer_discards_rotation(s) ==
    IF s.stack = <<>>
    THEN Done(s)
    ELSE Done([s EXCEPT !.stack = vec_pop(@)])

pointer(s) ==
    IF s.stack = <<>>
    THEN Done(s)
    ELSE LET n == vec_last(s.stack)
             turns == bigint_rem(4 + bigint_rem(n, 4), 4)
         IN  Done([s EXCEPT !.stack = vec_pop(@), !.dp = rotate_times(@, turns)])

\* switch toggling cc for positive odd values only
switch_positive_only(s) ==
    IF s.stack = <<>>
    THEN Done(s)
    ELSE LET n == vec_last(s.stack)
         IN  Done([s EXCEPT !.stack = vec_pop(@),
                            !.cc = IF n > 0 /\ n % 2 = 1 THEN toggle(@) ELSE @])

switch(s) ==
    IF s.stack = <<>>
    THEN Done(s)
    ELSE LET n == vec_last(s.stack)
         IN  Done([s EXCEPT !.stack = vec_pop(@),
                            !.cc = IF bit0(n) THEN toggle(@) ELSE @])

duplicate(s) ==
    IF s.stack = <<>>
    THEN Done(s)
    ELSE Done([s EXCEPT !.stack = vec_push(@, vec_last(@))])

\* roll reversing the window instead of rotating it
roll_reverses_window(s) ==
    IF Len(s.stack) >= 2
    THEN LET rolls == vec_last(s.stack)
             d == vec_last(vec_pop(s.stack))
             rest == vec_pop(vec_pop(s.stack))
             popped == [s EXCEPT !.stack = rest]
         IN  IF d < 0 THEN Done(popped)
             ELSE IF d > Len(rest) THEN Done(popped)
             ELSE IF d = 0 THEN Panic(popped)
             ELSE LET stack_len == Len(rest)
                      section == SubSeq(rest, stack_len - d + 1, stack_len)
                      mid == Abs(rolls) % d
                      rolled == IF mid = 0
                                THEN section
                                ELSE [i \in 1..d |-> section[d + 1 - i]]
                  IN  Done([popped EXCEPT
                               !.stack = SubSeq(rest, 1, stack_len - d) \o rolled])
    ELSE Done(s)

\* A depth above usize::MAX takes the same path as a depth above the stack length:
\* both return with the two operands popped.
roll(s) ==
    IF Len(s.stack) >= 2
    THEN LET rolls == vec_last(s.stack)
             d == vec_last(vec_pop(s.stack))
             rest == vec_pop(vec_pop(s.stack))
             popped == [s EXCEPT !.stack = rest]
         IN  IF d < 0 THEN Done(popped)
             ELSE IF d > Len(rest) THEN Done(popped)
             ELSE IF d = 0 THEN Panic(popped)
             ELSE LET stack_len == Len(rest)
                      section == SubSeq(rest, stack_len - d + 1, stack_len)
                      mid == Abs(rolls) % d
                      rolled == IF rolls < 0
                                THEN rotate_right(section, mid)
                                ELSE rotate_left(section, mid)
                  IN  Done([popped EXCEPT
                               !.stack = SubSeq(rest, 1, stack_len - d) \o rolled])
    ELSE Done(s)

\* the prompt "> " written before a line is read
Prompt == <<62, 32>>

in_char(s, line) ==
    IF line = <<>>
    THEN Wrote(s, Prompt)
    ELSE Wrote([s EXCEPT !.stack = vec_push(@, line[1])], Prompt)

in_number(s, line) ==
    LET num == parse_bigint(trim(line))
    IN  IF num = None
        THEN Wrote(s, Prompt)
        ELSE Wrote([s EXCEPT !.stack = vec_push(@, unwrap(num))], Prompt)

out_char(s) ==
    IF s.stack = <<>>
    THEN Done(s)
    ELSE LET c == from_u32(vec_last(s.stack))
             popped == [s EXCEPT !.stack = vec_pop(@)]
         IN  IF c = None THEN Done(popped) ELSE Wrote(popped, <<unwrap(c)>>)

out_number(s) ==
    IF s.stack = <<>>
    THEN Done(s)
    ELSE Wrote([s EXCEPT !.stack = vec_pop(@)], to_string(vec_last(s.stack)))

\* the dispatch running push whenever white is on either side of the transition
action_white_pushes(s, curr_color, next_color, block_value, line) ==
    IF curr_color = "White" \/ next_color = "White"
    THEN push(s, block_value)
    ELSE Done(s)

\* the dispatch with the entries of greater and pointer exchanged
action_pointer_for_greater(s, curr_color, next_color, block_value, line) ==
    LET hc == hue_change(curr_color, next_color)
        lc == lightness_change(curr_color, next_color)
    IN  IF hc # None /\ lc # None
        THEN LET hl == <<unwrap(hc), unwrap(lc)>>
             IN  CASE hl = <<0, 0>> -> Done(s)
                   [] hl = <<0, 1>> -> push(s, block_value)
                   [] hl = <<0, 2>> -> pop(s)
                   [] hl = <<1, 0>> -> add(s)
                   [] hl = <<1, 1>> -> subtract(s)
                   [] hl = <<1, 2>> -> multiply(s)
                   [] hl = <<2, 0>> -> divide(s)
                   [] hl = <<2, 1>> -> mod(s)
                   [] hl = <<2, 2>> -> not(s)
                   [] hl = <<3, 0>> -> pointer(s)
                   [] hl = <<3, 1>> -> greater(s)
                   [] hl = <<3, 2>> -> switch(s)
                   [] hl = <<4, 0>> -> duplicate(s)
                   [] hl = <<4, 1>> -> roll(s)
                   [] hl = <<4, 2>> -> in_number(s, line)
                   [] hl = <<5, 0>> -> in_char(s, line)
                   [] hl = <<5, 1>> -> out_number(s)
                   [] hl = <<5, 2>> -> out_char(s)
                   [] OTHER         -> Bail(s)
        ELSE Done(s)

(***************************************************************************)
(* interpreter.rs: Interpreter::action, the dispatch on (hue change,       *)
(* lightness change).  `line` is the line stdin delivers if one is read.   *)
(***************************************************************************)
action(s, curr_color, next_color, block_value, line) ==
    LET hc == hue_change(curr_color, next_color)
        lc == lightness_change(curr_color, next_color)
    IN  IF hc # None /\ lc # None
        THEN LET hl == <<unwrap(hc), unwrap(lc)>>
             IN  CASE hl = <<0, 0>> -> Done(s)
                   [] hl = <<0, 1>> -> push(s, block_value)
                   [] hl = <<0, 2>> -> pop(s)
                   [] hl = <<1, 0>> -> add(s)
                   [] hl = <<1, 1>> -> subtract(s)
                   [] hl = <<1, 2>> -> multiply(s)
                   [] hl = <<2, 0>> -> divide(s)
                   [] hl = <<2, 1>> -> mod(s)
                   [] hl = <<2, 2>> -> not(s)
                   [] hl = <<3, 0>> -> greater(s)
                   [] hl = <<3, 1>> -> pointer(s)
                   [] hl = <<3, 2>> -> switch(s)
                   [] hl = <<4, 0>> -> duplicate(s)
                   [] hl = <<4, 1>> -> roll(s)
                   [] hl = <<4, 2>> -> in_number(s, line)
                   [] hl = <<5, 0>> -> in_char(s, line)
                   [] hl = <<5, 1>> -> out_number(s)
                   [] hl = <<5, 2>> -> out_char(s)
                   [] OTHER         -> Bail(s)
        ELSE Done(s)

(***************************************************************************)
(* interpreter.rs: Interpreter::step.                                      *)
(***************************************************************************)
\* the loop toggling cc without rotating dp when the way ahead is restricted
RECURSIVE white_loop_no_rotation(_, _, _, _, _, _)
white_loop_no_rotation(prog, curr, dp, cc, seen_states, trail) ==
    IF <<curr, dp, cc>> \in seen_states
    THEN [exit |-> TRUE, curr |-> curr, dp |-> dp, cc |-> cc,
          next |-> None, next_color |-> None, trail |-> trail]
    ELSE LET seen2 == seen_states \cup {<<curr, dp, cc>>}
             trail2 == Append(trail, <<curr, dp, cc>>)
             next_codel == next_in_direction(curr, dp, prog)
             maybe_next_color ==
                 IF next_codel = None
                 THEN None
                 ELSE get_codel(prog, unwrap(next_codel)[1], unwrap(next_codel)[2])
         IN  IF next_codel = None \/ maybe_next_color = Some("Black")
             THEN white_loop_no_rotation(prog, curr, dp, toggle(cc), seen2, trail2)
             ELSE IF unwrap(maybe_next_color) = "White"
                  THEN white_loop_no_rotation(prog, unwrap(next_codel), dp, cc, seen2,
                                              trail2)
                  ELSE [exit |-> FALSE, curr |-> curr, dp |-> dp, cc |-> cc,
                        next |-> next_codel, next_color |-> maybe_next_color,
                        trail |-> trail2]

\* the loop remembering the positions it has seen, without their dp and cc
RECURSIVE white_loop_seen_positions(_, _, _, _, _, _)
white_loop_seen_positions(prog, curr, dp, cc, seen_states, trail) ==
    IF \E t \in seen_states : t[1] = curr
    THEN [exit |-> TRUE, curr |-> curr, dp |-> dp, cc |-> cc,
          next |-> None, next_color |-> None, trail |-> trail]
    ELSE LET seen2 == seen_states \cup {<<curr, dp, cc>>}
             trail2 == Append(trail, <<curr, dp, cc>>)
             next_codel == next_in_direction(curr, dp, prog)
             maybe_next_color ==
                 IF next_codel = None
                 THEN None
                 ELSE get_codel(prog, unwrap(next_codel)[1], unwrap(next_codel)[2])
         IN  IF next_codel = None \/ maybe_next_color = Some("Black")
             THEN white_loop_seen_positions(prog, curr, rotate_clockwise(dp), toggle(cc),
                                            seen2, trail2)
             ELSE IF unwrap(maybe_next_color) = "White"
                  THEN white_loop_seen_positions(prog, unwrap(next_codel), dp, cc, seen2,
                                                 trail2)
                  ELSE [exit |-> FALSE, curr |-> curr, dp |-> dp, cc |-> cc,
                        next |-> next_codel, next_color |-> maybe_next_color,
                        trail |-> trail2]

\* the loop rotating dp without toggling cc when the way ahead is restricted
RECURSIVE white_loop_no_toggle(_, _, _, _, _, _)
white_loop_no_toggle(prog, curr, dp, cc, seen_states, trail) ==
    IF <<curr, dp, cc>> \in seen_states
    THEN [exit |-> TRUE, curr |-> curr, dp |-> dp, cc |-> cc,
          next |-> None, next_color |-> None, trail |-> trail]
    ELSE LET seen2 == seen_states \cup {<<curr, dp, cc>>}
             trail2 == Append(trail, <<curr, dp, cc>>)
             next_codel == next_in_direction(curr, dp, prog)
             maybe_next_color ==
                 IF next_codel = None
                 THEN None
                 ELSE get_codel(prog, unwrap(next_codel)[1], unwrap(next_codel)[2])
         IN  IF next_codel = None \/ maybe_next_color = Some("Black")
             THEN white_loop_no_toggle(prog, curr, rotate_clockwise(dp), cc, seen2, trail2)
             ELSE IF unwrap(maybe_next_color) = "White"
                  THEN white_loop_no_toggle(prog, unwrap(next_codel), dp, cc, seen2, trail2)
                  ELSE [exit |-> FALSE, curr |-> curr, dp |-> dp, cc |-> cc,
                        next |-> next_codel, next_color |-> maybe_next_color,
                        trail |-> trail2]

\* The loop of the white branch.  seen_states is the HashSet of the code; trail lists
\* the same triples in the order the loop inserted them.
RECURSIVE white_loop(_, _, _, _, _, _)
white_loop(prog, curr, dp, cc, seen_states, trail) ==
    IF <<curr, dp, cc>> \in seen_states
    THEN [exit |-> TRUE, curr |-> curr, dp |-> dp, cc |-> cc,
          next |-> None, next_color |-> None, trail |-> trail]
    ELSE LET seen2 == seen_states \cup {<<curr, dp, cc>>}
             trail2 == Append(trail, <<curr, dp, cc>>)
             next_codel == next_in_direction(curr, dp, prog)
             maybe_next_color ==
                 IF next_codel = None
                 THEN None
                 ELSE get_codel(prog, unwrap(next_codel)[1], unwrap(next_codel)[2])
         IN  IF next_codel = None \/ maybe_next_color = Some("Black")
             THEN white_loop(prog, curr, rotate_clockwise(dp), toggle(cc), seen2, trail2)
             ELSE IF unwrap(maybe_next_color) = "White"
                  THEN white_loop(prog, unwrap(next_codel), dp, cc, seen2, trail2)
                  ELSE [exit |-> FALSE, curr |-> curr, dp |-> dp, cc |-> cc,
                        next |-> next_codel, next_color |-> maybe_next_color,
                        trail |-> trail2]

\* the loop giving up after one attempt per dp
RECURSIVE colored_loop_four_tries(_, _, _, _, _, _)
colored_loop_four_tries(prog, curr_codel, dp, cc, tries, tried) ==
    IF tries >= 4
    THEN [escaped |-> FALSE, dp |-> dp, cc |-> cc,
          next |-> None, next_color |-> None, tried |-> tried]
    ELSE LET e == edge(unwrap(get_color_block(prog, curr_codel)), dp, cc)
             next_codel == next_in_direction(e, dp, prog)
             next_color ==
                 IF next_codel = None
                 THEN None
                 ELSE get_codel(prog, unwrap(next_codel)[1], unwrap(next_codel)[2])
             tried2 == Append(tried, <<dp, cc>>)
         IN  IF next_codel # None /\ next_color # Some("Black")
             THEN [escaped |-> TRUE, dp |-> dp, cc |-> cc,
                   next |-> next_codel, next_color |-> next_color, tried |-> tried2]
             ELSE IF tries % 2 = 0
                  THEN colored_loop_four_tries(prog, curr_codel, dp, toggle(cc),
                                               tries + 1, tried2)
                  ELSE colored_loop_four_tries(prog, curr_codel, rotate_clockwise(dp), cc,
                                               tries + 1, tried2)

\* the loop rotating dp first and toggling cc second
RECURSIVE colored_loop_rotate_first(_, _, _, _, _, _)
colored_loop_rotate_first(prog, curr_codel, dp, cc, tries, tried) ==
    IF tries >= 8
    THEN [escaped |-> FALSE, dp |-> dp, cc |-> cc,
          next |-> None, next_color |-> None, tried |-> tried]
    ELSE LET e == edge(unwrap(get_color_block(prog, curr_codel)), dp, cc)
             next_codel == next_in_direction(e, dp, prog)
             next_color ==
                 IF next_codel = None
                 THEN None
                 ELSE get_codel(prog, unwrap(next_codel)[1], unwrap(next_codel)[2])
             tried2 == Append(tried, <<dp, cc>>)
         IN  IF next_codel # None /\ next_color # Some("Black")
             THEN [escaped |-> TRUE, dp |-> dp, cc |-> cc,
                   next |-> next_codel, next_color |-> next_color, tried |-> tried2]
             ELSE IF tries % 2 = 1
                  THEN colored_loop_rotate_first(prog, curr_codel, dp, toggle(cc),
                                                 tries + 1, tried2)
                  ELSE colored_loop_rotate_first(prog, curr_codel, rotate_clockwise(dp),
                                                 cc, tries + 1, tried2)

\* the loop taking any codel inside the grid, a Black one too, as the way out
RECURSIVE colored_loop_enters_black(_, _, _, _, _, _)
colored_loop_enters_black(prog, curr_codel, dp, cc, tries, tried) ==
    IF tries >= 8
    THEN [escaped |-> FALSE, dp |-> dp, cc |-> cc,
          next |-> None, next_color |-> None, tried |-> tried]
    ELSE LET e == edge(unwrap(get_color_block(prog, curr_codel)), dp, cc)
             next_codel == next_in_direction(e, dp, prog)
             next_color ==
                 IF next_codel = None
                 THEN None
                 ELSE get_codel(prog, unwrap(next_codel)[1], unwrap(next_codel)[2])
             tried2 == Append(tried, <<dp, cc>>)
         IN  IF next_codel # None
             THEN [escaped |-> TRUE, dp |-> dp, cc |-> cc,
                   next |-> next_codel, next_color |-> next_color, tried |-> tried2]
             ELSE IF tries % 2 = 0
                  THEN colored_loop_enters_black(prog, curr_codel, dp, toggle(cc),
                                                 tries + 1, tried2)
                  ELSE colored_loop_enters_black(prog, curr_codel, rotate_clockwise(dp),
                                                 cc, tries + 1, tried2)

\* the loop with one attempt more: `for tries in 0..9`
RECURSIVE colored_loop_nine_tries(_, _, _, _, _, _)
colored_loop_nine_tries(prog, curr_codel, dp, cc, tries, tried) ==
    IF tries >= 9
    THEN [escaped |-> FALSE, dp |-> dp, cc |-> cc,
          next |-> None, next_color |-> None, tried |-> tried]
    ELSE LET e == edge(unwrap(get_color_block(prog, curr_codel)), dp, cc)
             next_codel == next_in_direction(e, dp, prog)
             next_color ==
                 IF next_codel = None
                 THEN None
                 ELSE get_codel(prog, unwrap(next_codel)[1], unwrap(next_codel)[2])
             tried2 == Append(tried, <<dp, cc>>)
         IN  IF next_codel # None /\ next_color # Some("Black")
             THEN [escaped |-> TRUE, dp |-> dp, cc |-> cc,
                   next |-> next_codel, next_color |-> next_color, tried |-> tried2]
             ELSE IF tries % 2 = 0
                  THEN colored_loop_nine_tries(prog, curr_codel, dp, toggle(cc),
                                               tries + 1, tried2)
                  ELSE colored_loop_nine_tries(prog, curr_codel, rotate_clockwise(dp),
                                               cc, tries + 1, tried2)

\* The loop `for tries in 0..8` of the coloured branch.  tried lists the (dp, cc)
\* the iterations looked at, in order.
RECURSIVE colored_loop(_, _, _, _, _, _)
colored_loop(prog, curr_codel, dp, cc, tries, tried) ==
    IF tries >= 8
    THEN [escaped |-> FALSE, dp |-> dp, cc |-> cc,
          next |-> None, next_color |-> None, tried |-> tried]
    ELSE LET e == edge(unwrap(get_color_block(prog, curr_codel)), dp, cc)
             next_codel == next_in_direction(e, dp, prog)
             next_color ==
                 IF next_codel = None
                 THEN None
                 ELSE get_codel(prog, unwrap(next_codel)[1], unwrap(next_codel)[2])
             tried2 == Append(tried, <<dp, cc>>)
         IN  IF next_codel # None /\ next_color # Some("Black")
             THEN [escaped |-> TRUE, dp |-> dp, cc |-> cc,
                   next |-> next_codel, next_color |-> next_color, tried |-> tried2]
             ELSE IF tries % 2 = 0
                  THEN colored_loop(prog, curr_codel, dp, toggle(cc), tries + 1, tried2)
                  ELSE colored_loop(prog, curr_codel, rotate_clockwise(dp), cc,
                                    tries + 1, tried2)

\* What one call of step did: result is "Ok", "Err", "Panic" or "Exit" (process::exit(0));
\* branch is "black", "white" or "colored"; (curr, curr_color) -> (next, next_color) is
\* the transition found, if any.
StepOutcome(result, s, written, branch, curr, curr_color, next, next_color, tried, trail) ==
    [result |-> result, state |-> s, written |-> written, branch |-> branch,
     curr |-> curr, curr_color |-> curr_color, next |-> next, next_color |-> next_color,
     tried |-> tried, trail |-> trail]

\* the tail of step once the instruction of the transition curr -> next has run
step_finish(a, branch, curr, curr_color, next, next_color, tried, trail) ==
    StepOutcome(a.result,
                IF a.result = "Ok" THEN [a.state EXCEPT !.curr_codel = next] ELSE a.state,
                a.written, branch, Some(curr), Some(curr_color), Some(next),
                Some(next_color), tried, trail)

\* the tail of step, from block_value on, once a transition curr -> next is found
step_transition(prog, s, branch, curr, curr_color, next, next_color, tried, trail, line) ==
    step_finish(action(s, curr_color, next_color,
                       num_codels(unwrap(get_color_block(prog, s.curr_codel))), line),
                branch, curr, curr_color, next, next_color, tried, trail)

\* the white branch of step, w being what its loop found
step_white(prog, s, w, line) ==
    IF w.exit
    THEN StepOutcome("Exit", [s EXCEPT !.dp = w.dp, !.cc = w.cc], <<>>, "white",
                     Some(w.curr), Some("White"), None, None, <<>>, w.trail)
    ELSE step_transition(prog, [s EXCEPT !.dp = w.dp, !.cc = w.cc, !.curr_codel = w.curr],
                         "white", w.curr, "White", unwrap(w.next), unwrap(w.next_color),
                         <<>>, w.trail, line)

\* the coloured branch of step, c being what its loop found
step_colored(prog, s, curr_color, c, line) ==
    IF c.escaped
    THEN step_transition(prog, [s EXCEPT !.dp = c.dp, !.cc = c.cc], "colored",
                         s.curr_codel, curr_color, unwrap(c.next), unwrap(c.next_color),
                         c.tried, <<>>, line)
    ELSE StepOutcome("Exit", [s EXCEPT !.dp = c.dp, !.cc = c.cc], <<>>, "colored",
                     Some(s.curr_codel), Some(curr_color), None, None, c.tried, <<>>)

\* step treating a Black current codel like a block without a way out: the program ends
step_from_black_exits(prog, s, curr_color, line) ==
    IF curr_color = "Black"
    THEN StepOutcome("Exit", s, <<>>, "black", Some(s.curr_codel), Some(curr_color),
                     None, None, <<>>, <<>>)
    ELSE IF curr_color = "White"
    THEN step_white(prog, s, white_loop(prog, s.curr_codel, s.dp, s.cc, {}, <<>>), line)
    ELSE step_colored(prog, s, curr_color,
                      colored_loop(prog, s.curr_codel, s.dp, s.cc, 0, <<>>), line)

step_from(prog, s, curr_color, line) ==
    IF curr_color = "Black"
    THEN StepOutcome("Err", s, <<>>, "black", Some(s.curr_codel), Some(curr_color),
                     None, None, <<>>, <<>>)
    ELSE IF curr_color = "White"
    THEN step_white(prog, s, white_loop(prog, s.curr_codel, s.dp, s.cc, {}, <<>>), line)
    ELSE step_colored(prog, s, curr_color,
                      colored_loop(prog, s.curr_codel, s.dp, s.cc, 0, <<>>), line)

step(prog, s, line) ==
    step_from(prog, s, unwrap(get_codel(prog, s.curr_codel[1], s.curr_codel[2])), line)

(***************************************************************************)
(* The state machine.                                                      *)
(*   program    the Program the interpreter owns (immutable after load)    *)
(*   state      PietState: dp, cc, curr_codel, stack                       *)
(*   step_no    Interpreter::step_no                                       *)
(*   stdout     everything written to standard output so far               *)
(*   status     "loading" while new_from_imagebuffer fills the blocks;     *)
(*              "running"; "exit" after process::exit(0); "error" after    *)
(*              step returned Err; "panic" after a panic; "returned" after *)
(*              run_until returned Ok                                      *)
(*   max_steps  None when main calls run, Some(n) when it calls            *)
(*              run_until(n)                                               *)
(*   last       what the last action was and the state it started from     *)
(***************************************************************************)
PietState_default ==
    [dp |-> "Right", cc |-> "Left", curr_codel |-> Point(0, 0), stack |-> <<>>]

NoOutcome ==
    StepOutcome("None", PietState_default, <<>>, "none", None, None, None, None,
                <<>>, <<>>)

Snapshot(op, o) ==
    [op |-> op, pre |-> state, pre_out |-> stdout, pre_step |-> step_no, outcome |-> o]

\* the lines stdin may deliver: end of input, "\n", "7\n", " -3 \n", "x\n"
Lines == {<<>>, <<10>>, <<55, 10>>, <<32, 45, 51, 32, 10>>, <<120, 10>>}

\* the codel colours and the grid shapes <<rows, cols>> of the programs that are run
Palette == {"White", "Black", "LightRed", "Red", "DarkRed", "Yellow"}

Shapes == {<<1, 1>>, <<1, 3>>, <<2, 2>>}

Programs ==
    UNION {{Program_new(codels, sh[1], sh[2]) :
               codels \in [1..(sh[1] * sh[2]) -> Palette]} : sh \in Shapes}

RunModes == {None} \cup {Some(n) : n \in 0..MaxSteps}

InBounds(s, out) ==
    /\ Len(s.stack) <= MaxStack
    /\ \A i \in 1..Len(s.stack) : Abs(s.stack[i]) <= MaxVal
    /\ Len(out) <= MaxOut

\* the step counter left as it is by a completed step
step_no_not_counted == step_no

\* `self.step_no += 1`; the model stops counting at StepCap
step_no_incremented == IF step_no < StepCap THEN step_no + 1 ELSE step_no

Init ==
    /\ program \in Programs
    /\ state = PietState_default
    /\ step_no = 0
    /\ stdout = <<>>
    /\ status = "loading"
    /\ max_steps \in RunModes
    /\ last = Snapshot("init", NoOutcome)

\* One iteration of the block-filling loops of new_from_imagebuffer; after the last
\* one the program is handed to the interpreter.
Fill ==
    /\ status = "loading"
    /\ program' = fill_next(program)
    /\ status' = IF filled(program) + 1 = program.rows * program.cols
                 THEN "running"
                 ELSE "loading"
    /\ last' = Snapshot("fill", NoOutcome)
    /\ UNCHANGED <<state, step_no, stdout, max_steps>>

\* One iteration of the loop of run (max_steps = None) or of run_until: a call of step.
Step ==
    /\ status = "running"
    /\ IF max_steps = None THEN TRUE ELSE step_no < unwrap(max_steps)
    /\ \E line \in Lines :
          \E o \in {step(program, state, line)} :
              /\ InBounds(o.state, stdout \o o.written)
              /\ state' = o.state
              /\ stdout' = stdout \o o.written
              /\ step_no' = IF o.result = "Ok" THEN step_no_incremented ELSE step_no
              /\ status' = CASE o.result = "Ok"    -> "running"
                             [] o.result = "Exit"  -> "exit"
                             [] o.result = "Err"   -> "error"
                             [] o.result = "Panic" -> "panic"
              /\ last' = Snapshot("step", o)
    /\ UNCHANGED <<program, max_steps>>

\* run_until leaves its loop and returns Ok(())
Return ==
    /\ status = "running"
    /\ max_steps # None
    /\ step_no >= unwrap(max_steps)
    /\ status' = "returned"
    /\ last' = Snapshot("return", NoOutcome)
    /\ UNCHANGED <<program, state, step_no, stdout, max_steps>>

Next == Fill \/ Step \/ Return

Spec == Init /\ [][Next]_vars

\* Fill is enabled exactly while the program is loading
FillEnabled == status = "loading"

\* Step is enabled while the loop of run or run_until goes on and the step stays within
\* the bounds of the model; a step always changes curr_codel or status
StepEnabled ==
    /\ status = "running"
    /\ IF max_steps = None THEN TRUE ELSE step_no < unwrap(max_steps)
    /\ \E line \in Lines :
          \E o \in {step(program, state, line)} : InBounds(o.state, stdout \o o.written)

\* WF_vars(Fill) and WF_vars(Step), with ENABLED written out as a state predicate
FillFair == []<>(~FillEnabled) \/ []<><<Fill>>_vars

StepFair == []<>(~StepEnabled) \/ []<><<Step>>_vars

\* the loops of new_from_imagebuffer, run and run_until go on to their next iteration
FairSpec == Spec /\ FillFair /\ StepFair /\ WF_vars(Return)

(***************************************************************************)
(* The stack operations on their own: the state is drawn from bounded sets *)
(* and one operation is applied to it.                                     *)
(***************************************************************************)
Args == (-MaxArg)..MaxArg

Bases == {[i \in 1..n |-> i] : n \in 0..MaxBase}

Tops == {<<>>} \cup {<<a>> : a \in Args} \cup {<<b, a>> : b \in Args, a \in Args}

OpStacks == {base \o top : base \in Bases, top \in Tops}

InitOps ==
    /\ program = fill_next(Program_new(<<"Red">>, 1, 1))
    /\ state \in [dp : DirectionPointer, cc : CodelChooser,
                  curr_codel : {Point(0, 0)}, stack : OpStacks]
    /\ step_no = 0
    /\ stdout = <<>>
    /\ status = "running"
    /\ max_steps = None
    /\ last = Snapshot("init", NoOutcome)

Apply(op, o) ==
    /\ status = "running"
    /\ last.op = "init"
    /\ state' = o.state
    /\ stdout' = stdout \o o.written
    /\ status' = IF o.result = "Panic" THEN "panic" ELSE status
    /\ last' = Snapshot(op, NoOutcome)
    /\ UNCHANGED <<program, step_no, max_steps>>

OpPush == \E v \in 1..MaxBase : Apply("push", push(state, v))

OpPop == Apply("pop", pop(state))

OpAdd == Apply("add", add(state))

OpSubtract == Apply("subtract", subtract(state))

OpMultiply == Apply("multiply", multiply(state))

OpDivide == Apply("divide", divide(state))

OpMod == Apply("mod", mod(state))

OpNot == Apply("not", not(state))

OpGreater == Apply("greater", greater(state))

OpPointer == Apply("pointer", pointer(state))

OpSwitch == Apply("switch", switch(state))

OpDuplicate == Apply("duplicate", duplicate(state))

OpRoll == Apply("roll", roll(state))

OpInNumber == \E line \in Lines : Apply("in_number", in_number(state, line))

OpInChar == \E line \in Lines : Apply("in_char", in_char(state, line))

OpOutNumber == Apply("out_number", out_number(state))

OpOutChar == Apply("out_char", out_char(state))

NextOps ==
    \/ OpPush \/ OpPop \/ OpAdd \/ OpSubtract \/ OpMultiply \/ OpDivide \/ OpMod
    \/ OpNot \/ OpGreater \/ OpPointer \/ OpSwitch \/ OpDuplicate \/ OpRoll
    \/ OpInNumber \/ OpInChar \/ OpOutNumber \/ OpOutChar

SpecOps == InitOps /\ [][NextOps]_vars

(***************************************************************************)
(* out(char) on its own, with top values on both sides of every border of  *)
(* the Unicode scalar values.                                              *)
(***************************************************************************)
CharValues == {-1, 0, 65, 55295, 55296, 57343, 57344, 1114111, 1114112, 2147483647}

CharStacks == {<<>>} \cup {base \o <<v>> : base \in Bases, v \in CharValues}

InitChars ==
    /\ program = fill_next(Program_new(<<"Red">>, 1, 1))
    /\ state \in [dp : DirectionPointer, cc : CodelChooser,
                  curr_codel : {Point(0, 0)}, stack : CharStacks]
    /\ step_no = 0
    /\ stdout = <<>>
    /\ status = "running"
    /\ max_steps = None
    /\ last = Snapshot("init", NoOutcome)

SpecChars == InitChars /\ [][OpOutChar]_vars

(***************************************************************************)
(* Interpreter::action on its own: the two colours of a transition, the    *)
(* block value and the state are drawn from bounded sets and the dispatch  *)
(* is applied once.  last records the colours, the block value and the     *)
(* line read.                                                              *)
(***************************************************************************)
DispatchStacks == {<<>>, <<2>>, <<-1>>, <<5, 3>>, <<7, 0>>, <<1, 2, 3, 2, 1>>}

BlockValues == {1, 4}

InitDispatch ==
    /\ program = fill_next(Program_new(<<"Red">>, 1, 1))
    /\ state \in [dp : DirectionPointer, cc : {"Left"},
                  curr_codel : {Point(0, 0)}, stack : DispatchStacks]
    /\ step_no = 0
    /\ stdout = <<>>
    /\ status = "running"
    /\ max_steps = None
    /\ last = Snapshot("init", NoOutcome)

Dispatch ==
    /\ status = "running"
    /\ last.op = "init"
    /\ \E curr_color \in Color, next_color \in Color, block_value \in BlockValues,
          line \in Lines :
           \E o \in {action(state, curr_color, next_color, block_value, line)} :
               /\ state' = o.state
               /\ stdout' = stdout \o o.written
               /\ status' = CASE o.result = "Ok" -> "running"
                              [] o.result = "Err" -> "error"
                              [] o.result = "Panic" -> "panic"
               /\ last' = [op |-> "action", pre |-> state, pre_out |-> stdout,
                           pre_step |-> step_no, outcome |-> o,
                           curr_color |-> curr_color, next_color |-> next_color,
                           block_value |-> block_value, line |-> line]
    /\ UNCHANGED <<program, step_no, max_steps>>

SpecDispatch == InitDispatch /\ [][Dispatch]_vars

(***************************************************************************)
(* Interpreter::step over every instruction: the program is a row of two   *)
(* hue-bearing codels, so its first transition can be any entry of the     *)
(* instruction table, and the stack it starts with is drawn from a set     *)
(* that holds the failing cases of the instructions.                       *)
(***************************************************************************)
PairPrograms ==
    {fill_next(fill_next(Program_new(<<c1, c2>>, 1, 2))) :
        c1 \in Color \ {"White", "Black"}, c2 \in Color \ {"White", "Black"}}

PairStacks == {<<>>, <<2>>, <<-1>>, <<5, 3>>, <<5, 0>>, <<1, -1, 1>>, <<1, 5, 1>>}

InitPair ==
    /\ program \in PairPrograms
    /\ state \in [dp : {"Right"}, cc : {"Left"}, curr_codel : {Point(0, 0)},
                  stack : PairStacks]
    /\ step_no = 0
    /\ stdout = <<>>
    /\ status = "running"
    /\ max_steps = None
    /\ last = Snapshot("init", NoOutcome)

SpecPair == InitPair /\ [][Step]_vars

(***************************************************************************)
(* Program::new_from_imagebuffer on its own: the block-filling loops over  *)
(* grids large enough for two blocks to be joined by a later codel.        *)
(***************************************************************************)
BlockPalette == {"Red", "White", "Black"}

\* <<rows, cols, colours>> of the grids: three colours on 6 codels, two on 9
BlockShapes ==
    {<<2, 3, BlockPalette>>, <<3, 2, BlockPalette>>, <<3, 3, {"Red", "White"}>>}

InitBlocks ==
    /\ program \in UNION {{Program_new(codels, sh[1], sh[2]) :
                              codels \in [1..(sh[1] * sh[2]) -> sh[3]]} :
                          sh \in BlockShapes}
    /\ state = PietState_default
    /\ step_no = 0
    /\ stdout = <<>>
    /\ status = "loading"
    /\ max_steps = None
    /\ last = Snapshot("init", NoOutcome)

SpecBlocks == InitBlocks /\ [][Fill]_vars

(***************************************************************************)
(* From the image to the codel grid: main's missing-colour policy,         *)
(* Color::from_rgb8 and the first half of Program::new_from_imagebuffer.   *)
(* An Rgb is <<r, g, b>>; an image is [width, height, pixels], its pixels  *)
(* row by row.  While status is "start" or "decoding", last holds the      *)
(* command line (img, codel_size, missing_color_black) and the static      *)
(* MISSING_COLOR_WHITE; program is the Program once it is constructed, and *)
(* last.again the codel grid of a second construction from the same image. *)
(***************************************************************************)
from_rgb8(rgb) ==
    CASE rgb = <<255, 192, 192>> -> "LightRed"
      [] rgb = <<255, 255, 192>> -> "LightYellow"
      [] rgb = <<192, 255, 192>> -> "LightGreen"
      [] rgb = <<192, 255, 255>> -> "LightCyan"
      [] rgb = <<192, 192, 255>> -> "LightBlue"
      [] rgb = <<255, 192, 255>> -> "LightMagenta"
      [] rgb = <<255, 0, 0>>     -> "Red"
      [] rgb = <<255, 255, 0>>   -> "Yellow"
      [] rgb = <<0, 255, 0>>     -> "Green"
      [] rgb = <<0, 255, 255>>   -> "Cyan"
      [] rgb = <<0, 0, 255>>     -> "Blue"
      [] rgb = <<255, 0, 255>>   -> "Magenta"
      [] rgb = <<192, 0, 0>>     -> "DarkRed"
      [] rgb = <<192, 192, 0>>   -> "DarkYellow"
      [] rgb = <<0, 192, 0>>     -> "DarkGreen"
      [] rgb = <<0, 192, 192>>   -> "DarkCyan"
      [] rgb = <<0, 0, 192>>     -> "DarkBlue"
      [] rgb = <<192, 0, 192>>   -> "DarkMagenta"
      [] rgb = <<255, 255, 255>> -> "White"
      [] rgb = <<0, 0, 0>>       -> "Black"
      [] OTHER                   -> "White"

\* RgbImage::get_pixel(x, y): x is the column, y the row
get_pixel(img, x, y) == img.pixels[y * img.width + x + 1]

\* the pixels <<x, y>> of the square of codel (row, col)
square(codel_size, row, col) ==
    ((col * codel_size)..(col * codel_size + codel_size - 1))
        \X ((row * codel_size)..(row * codel_size + codel_size - 1))

\* the HashMap votes of the codel (row, col): for each colour that occurs in its square,
\* how many pixels of the square have it
votes(img, codel_size, row, col) ==
    LET colors == [xy \in square(codel_size, row, col) |->
                      from_rgb8(get_pixel(img, xy[1], xy[2]))]
    IN  [c \in {colors[xy] : xy \in DOMAIN colors} |->
            Cardinality({xy \in DOMAIN colors : colors[xy] = c})]

\* votes.into_iter().max_by_key(..): a colour with the most votes.  The iteration
\* order of the HashMap is not fixed, so any of the colours with the most votes may be
\* the one returned.
max_by_key(v) == {c \in DOMAIN v : \A d \in DOMAIN v : v[d] <= v[c]}

\* the codel grids new_from_imagebuffer can build from img
codel_grids(img, codel_size) ==
    IF codel_size = 1
    THEN {[i \in 1..(img.width * img.height) |-> from_rgb8(img.pixels[i])]}
    ELSE LET cols == img.width \div codel_size
             rows == img.height \div codel_size
             winners == [i \in 1..(rows * cols) |->
                            max_by_key(votes(img, codel_size, (i - 1) \div cols,
                                             (i - 1) % cols))]
         IN  {codels \in [1..(rows * cols) -> UNION {winners[i] : i \in 1..(rows * cols)}] :
                 \A i \in 1..(rows * cols) : codels[i] \in winners[i]}

\* the Program as new_from_imagebuffer has it before its block-filling loops
programs_of(img, codel_size) ==
    {Program_new(codels,
                 IF codel_size = 1 THEN img.height ELSE img.height \div codel_size,
                 IF codel_size = 1 THEN img.width ELSE img.width \div codel_size) :
        codels \in codel_grids(img, codel_size)}

\* the pixel values of the images: Red, White, Black and a value outside the palette
Pixels == {<<255, 0, 0>>, <<255, 255, 255>>, <<0, 0, 0>>, <<1, 2, 3>>}

\* <<width, height, pixel values>> of the images: four values on 4 or 6 pixels, three
\* on 8
ImageSizes ==
    {<<2, 2, Pixels>>, <<3, 2, Pixels>>,
     <<4, 2, {<<255, 0, 0>>, <<255, 255, 255>>, <<1, 2, 3>>}>>}

Images ==
    UNION {{[width |-> sz[1], height |-> sz[2], pixels |-> px] :
               px \in [1..(sz[1] * sz[2]) -> sz[3]]} : sz \in ImageSizes}

CodelSizes == {1, 2}

InitImage ==
    /\ program = Program_new(<<>>, 0, 0)
    /\ state = PietState_default
    /\ step_no = 0
    /\ stdout = <<>>
    /\ status = "start"
    /\ max_steps = None
    /\ last \in [op : {"init"}, img : Images, codel_size : CodelSizes,
                 missing_color_black : BOOLEAN, missing_color_white : {TRUE},
                 again : {<<>>}]

\* main: set_missing_color_white(!opt.missing_color_black)
SetMissingColor ==
    /\ status = "start"
    /\ status' = "decoding"
    /\ last' = [last EXCEPT !.op = "set_missing_color_white",
                            !.missing_color_white = ~last.missing_color_black]
    /\ UNCHANGED <<program, state, step_no, stdout, max_steps>>

\* new_from_imagebuffer up to its block-filling loops
Decode ==
    /\ status = "decoding"
    /\ program' \in programs_of(last.img, last.codel_size)
    /\ status' = "loading"
    /\ last' = [last EXCEPT !.op = "decode"]
    /\ UNCHANGED <<state, step_no, stdout, max_steps>>

\* a second construction from the same image and codel size
DecodeAgain ==
    /\ status = "loading"
    /\ last.op = "decode"
    /\ \E p \in programs_of(last.img, last.codel_size) :
          last' = [last EXCEPT !.op = "decode_again", !.again = p.codels]
    /\ UNCHANGED <<program, state, step_no, stdout, status, max_steps>>

NextImage == SetMissingColor \/ Decode \/ DecodeAgain

SpecImage == InitImage /\ [][NextImage]_vars

(***************************************************************************)
(* interpreter/mod.rs: the stepwise engine.  Its PietState has the field   *)
(* escape_attempts, kept from one call of step to the next; one call makes *)
(* a single escape attempt.  Its stack is a VecDeque used at the back.     *)
(***************************************************************************)
stepwise_push(s, v) == Done([s EXCEPT !.stack = vec_push(@, v)])

stepwise_pop(s) == IF s.stack = <<>> THEN Done(s) ELSE Done([s EXCEPT !.stack = vec_pop(@)])

stepwise_add(s) ==
    IF Len(s.stack) >= 2
    THEN LET a == vec_last(s.stack)
             b == vec_last(vec_pop(s.stack))
         IN  Done([s EXCEPT !.stack = vec_push(vec_pop(vec_pop(@)), a + b)])
    ELSE Done(s)

stepwise_subtract(s) ==
    IF Len(s.stack) >= 2
    THEN LET a == vec_last(s.stack)
             b == vec_last(vec_pop(s.stack))
         IN  Done([s EXCEPT !.stack = vec_push(vec_pop(vec_pop(@)), a - b)])
    ELSE Done(s)

stepwise_multiply(s) ==
    IF Len(s.stack) >= 2
    THEN LET a == vec_last(s.stack)
             b == vec_last(vec_pop(s.stack))
         IN  Done([s EXCEPT !.stack = vec_push(vec_pop(vec_pop(@)), a * b)])
    ELSE Done(s)

\* `a / b` panics when b is zero
stepwise_divide(s) ==
    IF Len(s.stack) >= 2
    THEN LET a == vec_last(s.stack)
             b == vec_last(vec_pop(s.stack))
             popped == [s EXCEPT !.stack = vec_pop(vec_pop(@))]
         IN  IF b = 0
             THEN Panic(popped)
             ELSE Done([popped EXCEPT !.stack = vec_push(@, bigint_div(a, b))])
    ELSE Done(s)

\* `(a + (b % a)) % a` panics when a is zero
stepwise_mod(s) ==
    IF Len(s.stack) >= 2
    THEN LET a == vec_last(s.stack)
             b == vec_last(vec_pop(s.stack))
             popped == [s EXCEPT !.stack = vec_pop(vec_pop(@))]
         IN  IF a = 0
             THEN Panic(popped)
             ELSE Done([popped EXCEPT
                           !.stack = vec_push(@, bigint_rem(a + bigint_rem(b, a), a))])
    ELSE Done(s)

stepwise_not(s) ==
    IF s.stack = <<>>
    THEN Done(s)
    ELSE LET val == vec_last(s.stack)
         IN  Done([s EXCEPT
                      !.stack = vec_push(vec_pop(@), IF val = 0 THEN 1 ELSE 0)])

stepwise_greater(s) ==
    IF Len(s.stack) >= 2
    THEN LET a == vec_last(s.stack)
             b == vec_last(vec_pop(s.stack))
         IN  Done([s EXCEPT
                      !.stack = vec_push(vec_pop(vec_pop(@)), IF b > a THEN 1 ELSE 0)])
    ELSE Done(s)

\* the loop calls dp.rotate_clockwise() and drops the value it returns: dp stays
stepwise_pointer(s) ==
    IF s.stack = <<>>
    THEN Done(s)
    ELSE Done([s EXCEPT !.stack = vec_pop(@)])

stepwise_switch(s) ==
    IF s.stack = <<>>
    THEN Done(s)
    ELSE LET n == vec_last(s.stack)
         IN  Done([s EXCEPT !.stack = vec_pop(@),
                            !.cc = IF bit0(n) THEN toggle(@) ELSE @])

stepwise_duplicate(s) ==
    IF s.stack = <<>>
    THEN Done(s)
    ELSE Done([s EXCEPT !.stack = vec_push(@, vec_last(@))])

stepwise_out_char(s) ==
    IF s.stack = <<>>
    THEN Done(s)
    ELSE LET c == from_u32(vec_last(s.stack))
             popped == [s EXCEPT !.stack = vec_pop(@)]
         IN  IF c = None THEN Done(popped) ELSE Wrote(popped, <<unwrap(c)>>)

stepwise_out_number(s) ==
    IF s.stack = <<>>
    THEN Done(s)
    ELSE Wrote([s EXCEPT !.stack = vec_pop(@)], to_string(vec_last(s.stack)))

\* the match of step on (hue change, lightness change); roll and the two in
\* instructions are todo!(), a panic
stepwise_action(s, curr_color, next_color, block_value) ==
    LET hc == hue_change(curr_color, next_color)
        lc == lightness_change(curr_color, next_color)
    IN  IF hc = None \/ lc = None
        THEN Done(s)
        ELSE CASE <<unwrap(hc), unwrap(lc)>> = <<0, 0>> -> Done(s)
               [] <<unwrap(hc), unwrap(lc)>> = <<0, 1>> -> stepwise_push(s, block_value)
               [] <<unwrap(hc), unwrap(lc)>> = <<0, 2>> -> stepwise_pop(s)
               [] <<unwrap(hc), unwrap(lc)>> = <<1, 0>> -> stepwise_add(s)
               [] <<unwrap(hc), unwrap(lc)>> = <<1, 1>> -> stepwise_subtract(s)
               [] <<unwrap(hc), unwrap(lc)>> = <<1, 2>> -> stepwise_multiply(s)
               [] <<unwrap(hc), unwrap(lc)>> = <<2, 0>> -> stepwise_divide(s)
               [] <<unwrap(hc), unwrap(lc)>> = <<2, 1>> -> stepwise_mod(s)
               [] <<unwrap(hc), unwrap(lc)>> = <<2, 2>> -> stepwise_not(s)
               [] <<unwrap(hc), unwrap(lc)>> = <<3, 0>> -> stepwise_greater(s)
               [] <<unwrap(hc), unwrap(lc)>> = <<3, 1>> -> stepwise_pointer(s)
               [] <<unwrap(hc), unwrap(lc)>> = <<3, 2>> -> stepwise_switch(s)
               [] <<unwrap(hc), unwrap(lc)>> = <<4, 0>> -> stepwise_duplicate(s)
               [] <<unwrap(hc), unwrap(lc)>> = <<4, 1>> -> Panic(s)
               [] <<unwrap(hc), unwrap(lc)>> = <<4, 2>> -> Panic(s)
               [] <<unwrap(hc), unwrap(lc)>> = <<5, 0>> -> Panic(s)
               [] <<unwrap(hc), unwrap(lc)>> = <<5, 1>> -> stepwise_out_number(s)
               [] <<unwrap(hc), unwrap(lc)>> = <<5, 2>> -> stepwise_out_char(s)
               [] OTHER -> Bail(s)

\* What one call of the stepwise step did: restricted tells whether the attempt led off
\* the grid or into Black, counted tells whether step_no was incremented.
StepwiseOutcome(result, s, written, restricted, counted) ==
    [result |-> result, state |-> s, written |-> written, restricted |-> restricted,
     counted |-> counted]

\* the branch `if move_off_or_black`
stepwise_restricted(s) ==
    IF s.escape_attempts >= 8
    THEN StepwiseOutcome("Exit", s, <<>>, TRUE, FALSE)
    ELSE LET attempts == s.escape_attempts + 1
         IN  StepwiseOutcome("Ok",
                             [s EXCEPT !.escape_attempts = attempts,
                                       !.dp = IF attempts % 2 = 0
                                              THEN rotate_clockwise(@)
                                              ELSE @,
                                       !.cc = IF attempts % 2 = 0 THEN @ ELSE toggle(@)],
                             <<>>, TRUE, FALSE)

\* the else branch, a being what the instruction of the transition to next did
stepwise_transition(a, next) ==
    IF a.result = "Ok"
    THEN StepwiseOutcome("Ok", [a.state EXCEPT !.curr_codel = next], a.written,
                         FALSE, TRUE)
    ELSE StepwiseOutcome(a.result, a.state, a.written, FALSE, FALSE)

stepwise_step(prog, s) ==
    LET cb == unwrap(get_color_block(prog, s.curr_codel))
        edge_codel == edge(cb, s.dp, s.cc)
        block_value == num_codels(cb)
        next_codel == next_in_direction(edge_codel, s.dp, prog)
        move_off_or_black ==
            IF next_codel = None
            THEN TRUE
            ELSE get_codel(prog, unwrap(next_codel)[1], unwrap(next_codel)[2])
                    = Some("Black")
    IN  IF move_off_or_black
        THEN stepwise_restricted(s)
        ELSE stepwise_transition(
                 stepwise_action([s EXCEPT !.escape_attempts = 0],
                                 unwrap(get_codel(prog, s.curr_codel[1], s.curr_codel[2])),
                                 unwrap(get_codel(prog, unwrap(next_codel)[1],
                                                  unwrap(next_codel)[2])),
                                 block_value),
                 unwrap(next_codel))

StepwiseState_default ==
    [dp |-> "Right", cc |-> "Left", curr_codel |-> Point(0, 0), stack |-> <<>>,
     escape_attempts |-> 0]

InitStepwise ==
    /\ program \in Programs
    /\ state = StepwiseState_default
    /\ step_no = 0
    /\ stdout = <<>>
    /\ status = "loading"
    /\ max_steps = None
    /\ last = Snapshot("init", NoOutcome)

\* One iteration of the loop of run of the stepwise engine: a call of its step.
StepwiseStep ==
    /\ status = "running"
    /\ \E o \in {stepwise_step(program, state)} :
          /\ InBounds(o.state, stdout \o o.written)
          /\ state' = o.state
          /\ stdout' = stdout \o o.written
          /\ step_no' = IF o.counted THEN step_no_incremented ELSE step_no
          /\ status' = CASE o.result = "Ok"    -> "running"
                         [] o.result = "Exit"  -> "exit"
                         [] o.result = "Err"   -> "error"
                         [] o.result = "Panic" -> "panic"
          /\ last' = Snapshot("stepwise_step", o)
    /\ UNCHANGED <<program, max_steps>>

NextStepwise == Fill \/ StepwiseStep

SpecStepwise == InitStepwise /\ [][NextStepwise]_vars

(***************************************************************************)
(* Properties of the stack operations (checked under SpecOps).             *)
(***************************************************************************)
\* the stack an operation started from, its top `a`, the entry below `b`, and the rest
PreStack == last.pre.stack

PreA == PreStack[Len(PreStack)]

PreB == PreStack[Len(PreStack) - 1]

PreRest == SubSeq(PreStack, 1, Len(PreStack) - 2)

\* window rotated right by k: the entry at position i moves to position i + k, cyclically
RotatedRight(window, k) ==
    [i \in 1..Len(window) |-> window[((i - 1 - k) % Len(window)) + 1]]

\* window rotated left by k
RotatedLeft(window, k) ==
    [i \in 1..Len(window) |-> window[((i - 1 + k) % Len(window)) + 1]]

\* what roll is to leave of a stack whose top is rolls and whose second entry is depth
RollExpected(stk) ==
    LET rolls == stk[Len(stk)]
        depth == stk[Len(stk) - 1]
        rest == SubSeq(stk, 1, Len(stk) - 2)
        window == SubSeq(rest, Len(rest) - depth + 1, Len(rest))
    IN  SubSeq(rest, 1, Len(rest) - depth)
            \o (IF rolls >= 0
                THEN RotatedRight(window, Abs(rolls) % depth)
                ELSE RotatedLeft(window, Abs(rolls) % depth))

RollApplies ==
    /\ last.op = "roll"
    /\ Len(PreStack) >= 2
    /\ 1 <= PreB
    /\ PreB <= Len(PreStack) - 2

\* C1: roll with 1 <= depth <= length - 2 removes both arguments and rotates the top
\* `depth` remaining entries right by |rolls| mod depth when rolls >= 0 and left by
\* |rolls| mod depth when rolls < 0; [1,2,3,4,5] with depth 3, rolls 1 gives [1,2,5,3,4].
C1_RollRotatesRight == RollApplies => state.stack = RollExpected(PreStack)

RollRejected ==
    /\ last.op = "roll"
    /\ Len(PreStack) >= 2
    /\ (PreB < 0 \/ PreB > Len(PreStack) - 2)

\* C2: roll whose depth is negative or exceeds the entries left after the two pops is a
\* no-op: the arguments are put back and the stack is as before.
C2_RollRejectedIsNoop == RollRejected => state.stack = PreStack

\* C3: mod with at least two entries and top entry 0 leaves the stack unchanged
\* (push 5, push 0, mod leaves [5, 0]).
C3_ModByZeroIsNoop ==
    (last.op = "mod" /\ Len(PreStack) >= 2 /\ PreA = 0) => state.stack = PreStack

\* C4: divide with at least two entries and top entry 0 leaves the stack unchanged.
C4_DivideByZeroIsNoop ==
    (last.op = "divide" /\ Len(PreStack) >= 2 /\ PreA = 0) => state.stack = PreStack

OneArgOps == {"pop", "not", "pointer", "switch", "duplicate", "out_number", "out_char"}

TwoArgOps == {"add", "subtract", "multiply", "divide", "mod", "greater", "roll"}

Underflow ==
    \/ last.op \in OneArgOps /\ Len(PreStack) = 0
    \/ last.op \in TwoArgOps /\ Len(PreStack) < 2

\* C5: a stack operation invoked with fewer entries than it needs (none for the
\* one-argument operations, fewer than 2 for the two-argument ones) leaves the stack,
\* dp and cc unchanged.
C5_UnderflowChangesNothing ==
    Underflow =>
        /\ state.stack = PreStack
        /\ state.dp = last.pre.dp
        /\ state.cc = last.pre.cc
        /\ stdout = last.pre_out
        /\ status = "running"

C5_Witness == last.op = "not" /\ PreStack = <<>> /\ state.stack = <<>>

\* C6: for b the second entry and a the top, a # 0, mod replaces both by one value r
\* congruent to b modulo a, with |r| < |a| and r zero or of the sign of a.
C6_ModSignOfDivisor ==
    (last.op = "mod" /\ Len(PreStack) >= 2 /\ PreA # 0) =>
        /\ Len(state.stack) = Len(PreStack) - 1
        /\ SubSeq(state.stack, 1, Len(PreStack) - 2) = PreRest
        /\ LET r == state.stack[Len(state.stack)]
           IN  /\ (r - PreB) % Abs(PreA) = 0
               /\ Abs(r) < Abs(PreA)
               /\ r = 0 \/ ((r > 0) = (PreA > 0))

C6_Witness ==
    /\ last.op = "mod"
    /\ Len(PreStack) >= 2
    /\ PreA = -3
    /\ PreB = 5
    /\ state.stack = Append(PreRest, -1)

\* the clockwise cycle of dp
Clockwise == <<"Right", "Down", "Left", "Up">>

ClockwiseIndex(dp) == CHOOSE i \in 1..4 : Clockwise[i] = dp

\* dp turned clockwise n times, n any integer
Turned(dp, n) == Clockwise[((ClockwiseIndex(dp) - 1 + n) % 4) + 1]

\* C7: pointer on a non-empty stack pops the top n and leaves dp rotated clockwise
\* (n mod 4) times, for negative n too (Right and -1 give Up); cc and the rest of the
\* stack are unchanged.
C7_PointerRotatesModFour ==
    (last.op = "pointer" /\ Len(PreStack) >= 1) =>
        /\ state.dp = Turned(last.pre.dp, PreA % 4)
        /\ state.cc = last.pre.cc
        /\ state.stack = SubSeq(PreStack, 1, Len(PreStack) - 1)

C7_Witness ==
    /\ last.op = "pointer"
    /\ Len(PreStack) >= 1
    /\ PreA = -1
    /\ last.pre.dp = "Right"
    /\ state.dp = "Up"

(***************************************************************************)
(* Properties of the traversal (checked under Spec and FairSpec).          *)
(***************************************************************************)
InGrid(q) == 0 <= q[1] /\ q[1] < program.rows /\ 0 <= q[2] /\ q[2] < program.cols

\* the colour of codel q; Black stands for everything outside the grid
CodelAt(q) == IF InGrid(q) THEN program.codels[q[1] * program.cols + q[2] + 1] ELSE "Black"

Ahead(q, dp) ==
    CASE dp = "Right" -> <<q[1], q[2] + 1>>
      [] dp = "Down"  -> <<q[1] + 1, q[2]>>
      [] dp = "Left"  -> <<q[1], q[2] - 1>>
      [] dp = "Up"    -> <<q[1] - 1, q[2]>>

\* the codel an escape attempt from the block of p with (dp, cc) leads to
AttemptTarget(p, dp, cc) == Ahead(program.cb[program.blocks[p]].edges[<<dp, cc>>], dp)

\* every one of the 4 x 2 escape attempts from the block of p leads off the grid or
\* into Black
AllRestricted(p) ==
    \A dp \in DirectionPointer, cc \in CodelChooser :
        CodelAt(AttemptTarget(p, dp, cc)) = "Black"

ColoredStep == last.op = "step" /\ last.outcome.branch = "colored"

IsRed1x1 == program.rows = 1 /\ program.cols = 1 /\ program.codels = <<"Red">>

\* C8: from a coloured block the program terminates with success exactly when the 8
\* consecutive escape attempts all lead off the grid or into Black; otherwise the step
\* finds a transition to an in-grid non-black codel and does not terminate.  A 1x1 Red
\* program terminates on its first step with an empty stack and no output.
C8_ExitIffEightRestricted ==
    /\ ColoredStep =>
          /\ (status = "exit") <=> AllRestricted(last.pre.curr_codel)
          /\ ~AllRestricted(last.pre.curr_codel) =>
                /\ last.outcome.next # None
                /\ InGrid(unwrap(last.outcome.next))
                /\ CodelAt(unwrap(last.outcome.next)) # "Black"
                /\ status = "running" =>
                      /\ state.curr_codel = unwrap(last.outcome.next)
                      /\ step_no = last.pre_step + 1 \/ step_no = StepCap
    /\ (IsRed1x1 /\ last.op = "step") =>
          /\ status = "exit"
          /\ last.pre_step = 0
          /\ state.stack = <<>>
          /\ stdout = <<>>

C8_Witness == IsRed1x1 /\ ColoredStep /\ status = "exit" /\ Len(last.outcome.tried) = 8

\* the (dp, cc) of the k-th consecutive attempt of a step entered with (dp, cc): after
\* each odd failure cc is toggled, after each even failure dp is rotated clockwise
ExpectedAttempt(dp, cc, k) ==
    << Turned(dp, (k - 1) \div 2),
       IF (k \div 2) % 2 = 1 THEN (IF cc = "Left" THEN "Right" ELSE "Left") ELSE cc >>

\* C9: in coloured traversal the k-th consecutive failed attempt toggles cc when k is
\* odd and rotates dp clockwise when k is even, the position staying unchanged; so the
\* 8 attempts made from one block test 8 pairwise distinct (dp, cc), all 4 x 2 of them.
C9_ToggleThenRotate ==
    ColoredStep =>
        LET tried == last.outcome.tried
        IN  /\ Len(tried) \in 1..8
            /\ \A k \in 1..Len(tried) :
                  tried[k] = ExpectedAttempt(last.pre.dp, last.pre.cc, k)
            /\ \A k \in 1..(Len(tried) - 1) :
                  CodelAt(AttemptTarget(last.pre.curr_codel, tried[k][1], tried[k][2]))
                      = "Black"
            /\ last.outcome.curr = Some(last.pre.curr_codel)
            /\ status = "exit" =>
                  /\ Len(tried) = 8
                  /\ {tried[k] : k \in 1..8} = DirectionPointer \X CodelChooser
                  /\ state.curr_codel = last.pre.curr_codel
            /\ status # "exit" =>
                  last.outcome.next =
                      Some(AttemptTarget(last.pre.curr_codel, tried[Len(tried)][1],
                                         tried[Len(tried)][2]))

C9_Witness ==
    /\ ColoredStep
    /\ status = "running"
    /\ Len(last.outcome.tried) = 6
    /\ state.dp = Turned(last.pre.dp, 2)
    /\ state.cc # last.pre.cc

IsStripRDW ==
    program.rows = 1 /\ program.cols = 3 /\ program.codels = <<"Red", "DarkRed", "White">>

\* C10: the run of the 1-row program [Red, DarkRed, White] pushes 1 on its first
\* transition, enters white on the second, and then eventually terminates with success
\* with stack [1] and nothing written.
C10_StripTerminates ==
    (IsStripRDW /\ max_steps = None) =>
        <>(status = "exit" /\ state.stack = <<1>> /\ stdout = <<>>)

\* C10 as amended: the run pushes 1 on its first transition and enters white on the
\* second; it never terminates: the third step leaves the white codel back onto DarkRed
\* with dp = Left, the fourth pops on DarkRed -> Red, and the fifth pushes 1 again from
\* Red, after which these four steps repeat; nothing is ever written.
C10_StripRunsForever ==
    (IsStripRDW /\ max_steps = None) =>
        /\ status \in {"loading", "running"}
        /\ stdout = <<>>
        /\ state.stack \in {<<>>, <<1>>}
        /\ (last.op = "step" /\ last.pre_step = 0) =>
              state.stack = <<1>> /\ state.curr_codel = <<0, 1>>
        /\ (last.op = "step" /\ last.pre_step = 1) =>
              /\ state.stack = <<1>>
              /\ state.curr_codel = <<0, 2>>
              /\ last.outcome.next_color = Some("White")
        /\ (last.op = "step" /\ last.pre_step = 2) =>
              /\ state.stack = <<1>>
              /\ state.curr_codel = <<0, 1>>
              /\ state.dp = "Left"
              /\ last.outcome.branch = "white"
        /\ (last.op = "step" /\ last.pre_step = 3) =>
              state.stack = <<>> /\ state.curr_codel = <<0, 0>>
        /\ (last.op = "step" /\ last.pre_step = 4) =>
              /\ state.stack = <<1>>
              /\ state.curr_codel = <<0, 1>>
              /\ state.dp = "Right"
              /\ state.cc = "Left"

C10_Witness ==
    /\ IsStripRDW
    /\ max_steps = None
    /\ last.op = "step"
    /\ last.pre_step = 4
    /\ state = [dp |-> "Right", cc |-> "Left", curr_codel |-> <<0, 1>>, stack |-> <<1>>]

(***************************************************************************)
(* Properties of the white excursion (checked under Spec).                 *)
(***************************************************************************)
WhiteStep == last.op = "step" /\ last.outcome.branch = "white"

\* the (position, dp, cc) a step starts with
EntryTriple == <<last.pre.curr_codel, last.pre.dp, last.pre.cc>>

Flipped(cc) == IF cc = "Left" THEN "Right" ELSE "Left"

\* the way ahead of triple t is off the grid or Black
WhiteRestricted(t) == CodelAt(Ahead(t[1], t[2])) = "Black"

\* the codel ahead of triple t is neither white nor black nor off the grid
WhiteEscapes(t) == CodelAt(Ahead(t[1], t[2])) \notin {"Black", "White"}

\* the triple an excursion visits after t when it does not escape at t
WhiteNext(t) ==
    IF WhiteRestricted(t)
    THEN <<t[1], Turned(t[2], 1), Flipped(t[3])>>
    ELSE <<Ahead(t[1], t[2]), t[2], t[3]>>

\* C11: a step that starts on a white codel terminates the program with success exactly
\* when the triple it is about to visit has been visited in this excursion; the visited
\* triples of an excursion begin with the triple the step starts with (nothing is kept
\* from earlier steps) and are pairwise distinct.
C11_WhiteExitIffTripleRepeats ==
    WhiteStep =>
        LET trail == last.outcome.trail
            final == trail[Len(trail)]
        IN  /\ Len(trail) >= 1
            /\ trail[1] = EntryTriple
            /\ \A i, j \in 1..Len(trail) : trail[i] = trail[j] => i = j
            /\ status \in {"exit", "running"}
            /\ (status = "exit") <=>
                  /\ ~WhiteEscapes(final)
                  /\ \E i \in 1..Len(trail) : trail[i] = WhiteNext(final)
            /\ (status = "running") <=> WhiteEscapes(final)

\* an excursion that moved before it came back to a triple it had visited
C11_Witness ==
    /\ WhiteStep
    /\ status = "exit"
    /\ \E i \in 1..Len(last.outcome.trail) :
          last.outcome.trail[i][1] # last.pre.curr_codel

\* a second excursion of one run that starts with the triple an earlier one visited
C11_WitnessNotCarriedOver ==
    /\ WhiteStep
    /\ status = "running"
    /\ IsStripRDW
    /\ last.pre_step >= 5

\* C12: in a white excursion, when the codel ahead is off the grid or Black, cc is
\* toggled, dp is rotated clockwise once and the position stays; when the codel ahead is
\* white the position advances by one codel in direction dp and dp and cc stay; the
\* excursion escapes at the first codel ahead that is neither, and that codel is the
\* position after the step.
C12_WhiteMoves ==
    WhiteStep =>
        LET trail == last.outcome.trail
        IN  /\ \A i \in 1..(Len(trail) - 1) :
                  LET ahead == Ahead(trail[i][1], trail[i][2])
                  IN  /\ CodelAt(ahead) \in {"Black", "White"}
                      /\ CodelAt(ahead) = "Black" =>
                            /\ trail[i + 1][1] = trail[i][1]
                            /\ trail[i + 1][2] = rotate_clockwise(trail[i][2])
                            /\ trail[i + 1][3] # trail[i][3]
                      /\ CodelAt(ahead) = "White" =>
                            /\ trail[i + 1][1] = ahead
                            /\ trail[i + 1][2] = trail[i][2]
                            /\ trail[i + 1][3] = trail[i][3]
            /\ status = "running" =>
                  LET final == trail[Len(trail)]
                  IN  /\ CodelAt(Ahead(final[1], final[2])) \notin {"Black", "White"}
                      /\ state.curr_codel = Ahead(final[1], final[2])
                      /\ state.dp = final[2]
                      /\ state.cc = final[3]
                      /\ last.outcome.curr = Some(final[1])

\* an excursion that advanced over white, was restricted, and then escaped
C12_Witness ==
    /\ WhiteStep
    /\ status = "running"
    /\ \E i \in 1..(Len(last.outcome.trail) - 1) :
          last.outcome.trail[i + 1][1] # last.outcome.trail[i][1]
    /\ \E i \in 1..(Len(last.outcome.trail) - 1) :
          last.outcome.trail[i + 1][2] # last.outcome.trail[i][2]

\* a step that completed a transition with white at its source or its destination
WhiteInvolved ==
    /\ last.op = "step"
    /\ status = "running"
    /\ last.outcome.curr_color = Some("White") \/ last.outcome.next_color = Some("White")

\* the number of restricted triples of the excursion of the last step
RestrictionCount ==
    Cardinality({i \in 1..Len(last.outcome.trail) : WhiteRestricted(last.outcome.trail[i])})

\* C13: every productive step whose source codel or destination codel is white leaves
\* the stack unchanged and writes nothing (so it does not prompt for input either); its
\* only effects are the new position and the dp and cc changes its restrictions caused.
C13_WhiteFiresNoInstruction ==
    WhiteInvolved =>
        /\ state.stack = last.pre.stack
        /\ stdout = last.pre_out
        /\ last.outcome.written = <<>>
        /\ state.curr_codel = unwrap(last.outcome.next)
        /\ last.outcome.branch = "colored" =>
              <<state.dp, state.cc>> =
                  ExpectedAttempt(last.pre.dp, last.pre.cc, Len(last.outcome.tried))
        /\ last.outcome.branch = "white" =>
              /\ state.dp = Turned(last.pre.dp, RestrictionCount)
              /\ state.cc = IF RestrictionCount % 2 = 0
                            THEN last.pre.cc
                            ELSE Flipped(last.pre.cc)

\* a step from a coloured block onto white, with a stack that could have been popped
C13_Witness ==
    /\ WhiteInvolved
    /\ last.outcome.branch = "colored"
    /\ last.outcome.curr_color = Some("DarkRed")
    /\ last.pre.stack # <<>>
    /\ Len(last.outcome.tried) > 1

\* a step leaving white onto a coloured codel after a restriction
C13_WitnessFromWhite ==
    /\ WhiteInvolved
    /\ last.outcome.branch = "white"
    /\ last.pre.stack # <<>>
    /\ RestrictionCount = 2

(***************************************************************************)
(* Properties of the dispatch and of the colour shifts (checked under      *)
(* SpecDispatch).                                                          *)
(***************************************************************************)
\* the hue-bearing colours: one row per hue in the order red, yellow, green, cyan, blue,
\* magenta; within a row light, normal, dark
ColorTable ==
    << <<"LightRed", "Red", "DarkRed">>,
       <<"LightYellow", "Yellow", "DarkYellow">>,
       <<"LightGreen", "Green", "DarkGreen">>,
       <<"LightCyan", "Cyan", "DarkCyan">>,
       <<"LightBlue", "Blue", "DarkBlue">>,
       <<"LightMagenta", "Magenta", "DarkMagenta">> >>

HueBearing(c) == c \notin {"White", "Black"}

HueOf(c) == CHOOSE h \in 0..5 : \E l \in 0..2 : ColorTable[h + 1][l + 1] = c

LightnessOf(c) == CHOOSE l \in 0..2 : \E h \in 0..5 : ColorTable[h + 1][l + 1] = c

HueShift(c1, c2) == (HueOf(c2) - HueOf(c1) + 6) % 6

LightnessShift(c1, c2) == (LightnessOf(c2) - LightnessOf(c1) + 3) % 3

\* the 6x3 table of instructions, row by row
InstructionTable ==
    << "none", "push", "pop",
       "add", "subtract", "multiply",
       "divide", "mod", "not",
       "greater", "pointer", "switch",
       "duplicate", "roll", "in(number)",
       "in(char)", "out(number)", "out(char)" >>

Instruction(h, l) == InstructionTable[3 * h + l + 1]

\* what the instruction of that name does to state s
Run(name, s, block_value, line) ==
    CASE name = "none"        -> Done(s)
      [] name = "push"        -> push(s, block_value)
      [] name = "pop"         -> pop(s)
      [] name = "add"         -> add(s)
      [] name = "subtract"    -> subtract(s)
      [] name = "multiply"    -> multiply(s)
      [] name = "divide"      -> divide(s)
      [] name = "mod"         -> mod(s)
      [] name = "not"         -> not(s)
      [] name = "greater"     -> greater(s)
      [] name = "pointer"     -> pointer(s)
      [] name = "switch"      -> switch(s)
      [] name = "duplicate"   -> duplicate(s)
      [] name = "roll"        -> roll(s)
      [] name = "in(number)"  -> in_number(s, line)
      [] name = "in(char)"    -> in_char(s, line)
      [] name = "out(number)" -> out_number(s)
      [] name = "out(char)"   -> out_char(s)

Dispatched == last.op = "action"

\* C14: for every transition between two hue-bearing colours the operation executed is
\* the one the 6x3 table gives for (hue shift, lightness shift), and no other pair of
\* shifts occurs (the dispatch never fails on an unknown pair).
C14_DispatchTable ==
    (Dispatched /\ HueBearing(last.curr_color) /\ HueBearing(last.next_color)) =>
        LET h == HueShift(last.curr_color, last.next_color)
            l == LightnessShift(last.curr_color, last.next_color)
        IN  /\ last.outcome =
                  Run(Instruction(h, l), last.pre, last.block_value, last.line)
            /\ last.outcome.result # "Err"
            /\ state = last.outcome.state
            /\ stdout = last.pre_out \o last.outcome.written

\* greater has run on [5, 3]
C14_Witness ==
    /\ Dispatched
    /\ last.curr_color = "LightRed"
    /\ last.next_color = "LightCyan"
    /\ last.pre.stack = <<5, 3>>
    /\ state.stack = <<1>>

\* C15: for hue-bearing c1 (source) and c2 (destination), hue_change is
\* (hue(c2) - hue(c1)) mod 6 in 0..5 and lightness_change is
\* (lightness(c2) - lightness(c1)) mod 3 in 0..2, with hues red..magenta = 0..5 and
\* light, normal, dark = 0..2; both are 0 when c1 = c2; both are undefined exactly when
\* c1 or c2 is White or Black.
C15_Shifts ==
    Dispatched =>
        LET c1 == last.curr_color
            c2 == last.next_color
        IN  /\ (HueBearing(c1) /\ HueBearing(c2)) =>
                  /\ hue_change(c1, c2) = Some(HueShift(c1, c2))
                  /\ lightness_change(c1, c2) = Some(LightnessShift(c1, c2))
                  /\ unwrap(hue_change(c1, c2)) \in 0..5
                  /\ unwrap(lightness_change(c1, c2)) \in 0..2
            /\ c1 = c2 /\ HueBearing(c1) =>
                  hue_change(c1, c2) = Some(0) /\ lightness_change(c1, c2) = Some(0)
            /\ (hue_change(c1, c2) = None) <=> ~(HueBearing(c1) /\ HueBearing(c2))
            /\ (lightness_change(c1, c2) = None) <=> ~(HueBearing(c1) /\ HueBearing(c2))

\* a pair whose differences are negative before the reduction
C15_Witness ==
    /\ Dispatched
    /\ last.curr_color = "DarkMagenta"
    /\ last.next_color = "LightRed"
    /\ hue_change(last.curr_color, last.next_color) = Some(1)
    /\ lightness_change(last.curr_color, last.next_color) = Some(1)

(***************************************************************************)
(* Properties of run_until (checked under Spec).                           *)
(***************************************************************************)
\* What holds of run_until(n) however it ends: the step count never passes n, a step is
\* executed only while the count is below n, a completed step adds one to the count,
\* a normal return happens with the count equal to n, and run_until(0) changes nothing.
RunUntilBounded ==
    max_steps # None =>
        LET n == unwrap(max_steps)
        IN  /\ step_no <= n
            /\ last.op = "step" =>
                  /\ last.pre_step < n
                  /\ step_no = IF last.outcome.result = "Ok"
                               THEN last.pre_step + 1
                               ELSE last.pre_step
            /\ status = "returned" => step_no = n /\ last.op = "return"
            /\ (status = "running" /\ last.op = "step") =>
                  state.curr_codel = unwrap(last.outcome.next)
            /\ (n = 0 /\ status # "loading") =>
                  /\ status \in {"running", "returned"}
                  /\ state = PietState_default
                  /\ stdout = <<>>
                  /\ step_no = 0
            /\ status = "exit" =>
                  /\ last.op = "step"
                  /\ last.outcome.branch = "colored" => AllRestricted(last.pre.curr_codel)
                  /\ last.outcome.branch = "white" =>
                        WhiteNext(last.outcome.trail[Len(last.outcome.trail)])
                            \in {last.outcome.trail[i] : i \in 1..Len(last.outcome.trail)}

C16_WitnessError ==
    /\ max_steps = Some(2)
    /\ status = "error"
    /\ step_no = 0

(***************************************************************************)
(* Properties of a step whose instruction fails (checked under SpecPair).  *)
(***************************************************************************)
NeedOne == {"pop", "not", "pointer", "switch", "duplicate", "out(number)", "out(char)"}

NeedTwo == {"add", "subtract", "multiply", "divide", "mod", "greater", "roll"}

\* the instruction named `name` fails at run time on stack stk: stack underflow,
\* division or modulus by zero, a roll depth that is negative or larger than what is
\* left of the stack, a value that is no character for out(char)
InstructionFails(name, stk) ==
    \/ name \in NeedOne /\ Len(stk) < 1
    \/ name \in NeedTwo /\ Len(stk) < 2
    \/ name \in {"divide", "mod"} /\ Len(stk) >= 2 /\ stk[Len(stk)] = 0
    \/ /\ name = "roll"
       /\ Len(stk) >= 2
       /\ stk[Len(stk) - 1] < 0 \/ stk[Len(stk) - 1] > Len(stk) - 2
    \/ /\ name = "out(char)"
       /\ Len(stk) >= 1
       /\ \/ stk[Len(stk)] < 0
          \/ stk[Len(stk)] > 1114111
          \/ stk[Len(stk)] \in 55296..57343

\* the instruction of the transition the last step found
LastInstruction ==
    Instruction(HueShift(unwrap(last.outcome.curr_color), unwrap(last.outcome.next_color)),
                LightnessShift(unwrap(last.outcome.curr_color),
                               unwrap(last.outcome.next_color)))

\* the last step found a transition between hue-bearing codels whose instruction failed
FailedInstruction ==
    /\ last.op = "step"
    /\ last.outcome.next # None
    /\ HueBearing(unwrap(last.outcome.curr_color))
    /\ HueBearing(unwrap(last.outcome.next_color))
    /\ InstructionFails(LastInstruction, last.pre.stack)

\* C17: when the instruction of a transition fails at run time (stack underflow,
\* division or modulus by zero, invalid roll depth, invalid character value for
\* out(char)) the step still completes without error, and the position after the step
\* is the destination codel of the transition, as if the instruction had succeeded.
C17_FailedInstructionStillAdvances ==
    FailedInstruction =>
        /\ last.outcome.result = "Ok"
        /\ status = "running"
        /\ state.curr_codel = unwrap(last.outcome.next)
        /\ state.curr_codel =
              AttemptTarget(last.pre.curr_codel, state.dp, state.cc)
        /\ step_no = last.pre_step + 1 \/ step_no = StepCap
        /\ stdout = last.pre_out

\* a division by zero on the way from (0, 0) to (0, 1)
C17_Witness ==
    /\ FailedInstruction
    /\ LastInstruction = "divide"
    /\ last.pre.stack = <<5, 0>>
    /\ last.pre.curr_codel = <<0, 0>>
    /\ state.curr_codel = <<0, 1>>

\* a roll whose depth is larger than the stack, and an out(char) of -1
C17_WitnessRoll ==
    FailedInstruction /\ LastInstruction = "roll" /\ last.pre.stack = <<1, 5, 1>>

C17_WitnessOutChar ==
    FailedInstruction /\ LastInstruction = "out(char)" /\ last.pre.stack = <<-1>>

(***************************************************************************)
(* Properties of the blocks (checked under SpecBlocks).                    *)
(***************************************************************************)
\* how far point q lies in direction dp
Extent(q, dp) ==
    CASE dp = "Right" -> q[2]
      [] dp = "Down"  -> q[1]
      [] dp = "Left"  -> -q[2]
      [] dp = "Up"    -> -q[1]

\* the tie-break among the points furthest in direction dp: larger is preferred
TieBreak(q, dp, cc) ==
    CASE dp = "Right" /\ cc = "Left"  -> -q[1]
      [] dp = "Right" /\ cc = "Right" -> q[1]
      [] dp = "Down"  /\ cc = "Left"  -> q[2]
      [] dp = "Down"  /\ cc = "Right" -> -q[2]
      [] dp = "Left"  /\ cc = "Left"  -> q[1]
      [] dp = "Left"  /\ cc = "Right" -> -q[1]
      [] dp = "Up"    /\ cc = "Left"  -> -q[2]
      [] dp = "Up"    /\ cc = "Right" -> q[2]

\* e is the representative of the set of points `area` for (dp, cc)
IsRepresentative(e, area, dp, cc) ==
    /\ e \in area
    /\ \A q \in area :
          /\ Extent(q, dp) <= Extent(e, dp)
          /\ Extent(q, dp) = Extent(e, dp) => TieBreak(q, dp, cc) <= TieBreak(e, dp, cc)

\* the blocks that positions refer to
LiveBlocks == {program.cb[program.blocks[p]] : p \in DOMAIN program.blocks}

\* C18: for every block B and every (dp, cc) the stored edge representative is a member
\* of B, is extremal among the members of B in direction dp, and among the extremal
\* members is the one the tie-break selects; this holds after every add-codel and merge
\* of the construction, and so after it.
C18_EdgesAreExtremal ==
    \A B \in LiveBlocks :
        \A dp \in DirectionPointer, cc \in CodelChooser :
            IsRepresentative(B.edges[<<dp, cc>>], B.area, dp, cc)

\* a finished block of at least 4 codels put together by a merge of two blocks of more
\* than one codel, with different representatives for the two cc of one dp
C18_Witness ==
    /\ status = "running"
    /\ last.op = "fill"
    /\ \E B \in LiveBlocks :
          /\ Cardinality(B.area) >= 5
          /\ B.edges[<<"Right", "Left">>] # B.edges[<<"Right", "Right">>]
          /\ B.edges[<<"Up", "Left">>] # B.edges[<<"Up", "Right">>]

GridPoints == {<<r, c>> : r \in 0..(program.rows - 1), c \in 0..(program.cols - 1)}

Constructed == status # "loading"

\* C19: after block construction, for every grid position p the block returned for p
\* has p among its members, every member of it has the colour of the block in the codel
\* grid, and every member is mapped to the same block as p.
C19_BlockOfPosition ==
    Constructed =>
        /\ DOMAIN program.blocks = GridPoints
        /\ \A p \in GridPoints :
              LET B == unwrap(get_color_block(program, p))
              IN  /\ p \in B.area
                  /\ B.area \subseteq GridPoints
                  /\ \A q \in B.area :
                        /\ CodelAt(q) = B.color
                        /\ program.blocks[q] = program.blocks[p]
                        /\ get_color_block(program, q) = Some(B)

\* the U-shaped Red block of 7 codels, whose two arms were blocks of their own until
\* the last codel joined them
C19_Witness ==
    /\ Constructed
    /\ program.rows = 3
    /\ program.codels = <<"Red", "White", "Red", "Red", "White", "Red", "Red", "Red", "Red">>
    /\ Cardinality(unwrap(get_color_block(program, <<0, 2>>)).area) = 7
    /\ program.blocks[<<0, 0>>] = program.blocks[<<0, 2>>]

Adjacent(p, q) ==
    \/ p[1] = q[1] /\ (p[2] = q[2] + 1 \/ q[2] = p[2] + 1)
    \/ p[2] = q[2] /\ (p[1] = q[1] + 1 \/ q[1] = p[1] + 1)

\* S with the codels that are 4-adjacent to one of S and have its colour
Grown(S) ==
    S \cup {q \in GridPoints : \E p \in S : Adjacent(p, q) /\ CodelAt(p) = CodelAt(q)}

RECURSIVE GrownTimes(_, _)
GrownTimes(S, n) == IF n = 0 THEN S ELSE GrownTimes(Grown(S), n - 1)

\* the positions joined to p by a path of 4-adjacent codels of one colour
Component(p) == GrownTimes({p}, program.rows * program.cols)

\* C20: after block construction the blocks are the 4-connected components of the grid
\* under same-colour adjacency: two positions are in one block exactly when a path of
\* 4-adjacent codels of one colour joins them; blocks are maximal and pairwise disjoint.
C20_BlocksAreComponents ==
    Constructed =>
        \A p \in GridPoints :
            /\ program.cb[program.blocks[p]].area = Component(p)
            /\ \A q \in GridPoints :
                  (program.blocks[p] = program.blocks[q]) <=> q \in Component(p)
            /\ \A q \in GridPoints :
                  \/ program.cb[program.blocks[p]].area = program.cb[program.blocks[q]].area
                  \/ program.cb[program.blocks[p]].area
                         \cap program.cb[program.blocks[q]].area = {}

\* four Red corners that stay four blocks around a White cross of 5 codels
C20_Witness ==
    /\ Constructed
    /\ program.rows = 3
    /\ program.codels = <<"Red", "White", "Red", "White", "White", "White", "Red", "White", "Red">>
    /\ Cardinality({program.blocks[p] : p \in GridPoints}) = 5
    /\ Cardinality(program.cb[program.blocks[<<1, 1>>]].area) = 5

(***************************************************************************)
(* Properties of the codel grid (checked under SpecImage).                 *)
(***************************************************************************)
\* the 20 RGB values of the palette
Canonical ==
    ({<<r, g, b>> : r \in {192, 255}, g \in {192, 255}, b \in {192, 255}}
        \cup {<<r, g, b>> : r \in {0, 255}, g \in {0, 255}, b \in {0, 255}}
        \cup {<<r, g, b>> : r \in {0, 192}, g \in {0, 192}, b \in {0, 192}})
    \ {<<192, 192, 192>>}

Decoded == last.op \in {"decode", "decode_again"}

\* C21: a pixel whose RGB value is not one of the 20 palette values is classified as
\* White under the default missing-colour policy and as Black when the host has set
\* missing_color_black = true (with codel size 1 the codel is the pixel).
C21_MissingColorPolicy ==
    (Decoded /\ last.codel_size = 1) =>
        \A i \in 1..Len(last.img.pixels) :
            last.img.pixels[i] \notin Canonical =>
                program.codels[i] = IF last.missing_color_black THEN "Black" ELSE "White"

\* how many pixels of the square of codel (row, col) are classified as colour c
PixelCount(row, col, c) ==
    Cardinality({xy \in square(last.codel_size, row, col) :
                    from_rgb8(get_pixel(last.img, xy[1], xy[2])) = c})

\* C22: for codel_size > 1 the colour of each codel is a colour with the highest pixel
\* count in its square, and the choice is deterministic: a second construction from the
\* same pixel buffer and codel size gives the same codel grid, ties included.
C22_MajorityVoteDeterministic ==
    (Decoded /\ last.codel_size > 1) =>
        /\ \A i \in 1..Len(program.codels) :
              \A c \in Color :
                  PixelCount((i - 1) \div program.cols, (i - 1) % program.cols, c)
                      <= PixelCount((i - 1) \div program.cols, (i - 1) % program.cols,
                                    program.codels[i])
        /\ last.op = "decode_again" => last.again = program.codels

(***************************************************************************)
(* Properties of a run that does not start on Black (checked under Spec).  *)
(***************************************************************************)
\* C23: in every state of a run whose top-left codel is not Black the current position
\* is a codel of the grid that is not Black, and no step takes the black branch or ends
\* with its error.
C23_NeverOnBlack ==
    program.codels[1] # "Black" =>
        /\ InGrid(state.curr_codel)
        /\ CodelAt(state.curr_codel) # "Black"
        /\ status # "error"
        /\ last.op = "step" => last.outcome.branch # "black" /\ last.outcome.result # "Err"

\* a second or later step has run next to a Black codel of the grid: its first escape
\* attempt led into that codel and was rejected
C23_Witness ==
    /\ program.codels[1] # "Black"
    /\ ColoredStep
    /\ status = "running"
    /\ step_no >= 2
    /\ Len(last.outcome.tried) >= 2
    /\ InGrid(AttemptTarget(last.pre.curr_codel, last.outcome.tried[1][1],
                            last.outcome.tried[1][2]))
    /\ CodelAt(AttemptTarget(last.pre.curr_codel, last.outcome.tried[1][1],
                             last.outcome.tried[1][2])) = "Black"

\* the last step ran the instruction `name` of a transition between hue-bearing codels
Executed(name) ==
    /\ last.op = "step"
    /\ last.outcome.next # None
    /\ HueBearing(unwrap(last.outcome.curr_color))
    /\ HueBearing(unwrap(last.outcome.next_color))
    /\ LastInstruction = name

\* the number of codels of the 4-connected region of equal colour the step started in
SourceBlockSize == Cardinality(Component(last.pre.curr_codel))

\* C24: a step over a transition of hue shift 0 and lightness shift 1 (push) appends
\* exactly one entry to the stack, the number of codels of the source block, which is
\* at least 1; the entries below, the output and the result of the step are untouched.
C24_PushBlockSize ==
    Executed("push") =>
        /\ HueShift(unwrap(last.outcome.curr_color), unwrap(last.outcome.next_color)) = 0
        /\ LightnessShift(unwrap(last.outcome.curr_color),
                          unwrap(last.outcome.next_color)) = 1
        /\ SourceBlockSize >= 1
        /\ state.stack = Append(last.pre.stack, SourceBlockSize)
        /\ stdout = last.pre_out
        /\ last.outcome.result = "Ok"
        /\ state.curr_codel = unwrap(last.outcome.next)

\* a push from a block of two codels onto a stack that already holds an entry
C24_Witness ==
    /\ Executed("push")
    /\ SourceBlockSize = 2
    /\ Len(last.pre.stack) >= 1
    /\ state.stack = Append(last.pre.stack, 2)

(***************************************************************************)
(* Arithmetic, switch and roll on their own (checked under SpecOps).       *)
(***************************************************************************)
\* everything of the state but the stack is as it was before the operation
OnlyStackChanged ==
    /\ state.dp = last.pre.dp
    /\ state.cc = last.pre.cc
    /\ state.curr_codel = last.pre.curr_codel
    /\ stdout = last.pre_out
    /\ status = "running"

\* C25: with a on top and b below it, add, subtract and multiply replace the two by
\* b + a, b - a and b * a; the entries below them are untouched.
C25_Arithmetic ==
    (last.op \in {"add", "subtract", "multiply"} /\ Len(PreStack) >= 2) =>
        /\ state.stack = Append(PreRest, CASE last.op = "add"      -> PreB + PreA
                                           [] last.op = "subtract" -> PreB - PreA
                                           [] last.op = "multiply" -> PreB * PreA)
        /\ OnlyStackChanged

\* subtract with b = 2 below a = 5 leaves -3 above an untouched rest
C25_Witness ==
    /\ last.op = "subtract"
    /\ PreStack = <<1, 2, 5>>
    /\ state.stack = <<1, -3>>

\* q is b / a rounded toward zero: what is left of b has less magnitude than a and,
\* unless it is zero, the sign of b
TruncatedQuotient(q, b, a) ==
    /\ Abs(b - q * a) < Abs(a)
    /\ b - q * a # 0 => ((b - q * a < 0) <=> (b < 0))

\* C26: with a # 0 on top and b below it, divide replaces the two by b / a rounded
\* toward zero (b = -7, a = 2 gives -3); the entries below them are untouched.
C26_DivideTruncates ==
    /\ (last.op = "divide" /\ Len(PreStack) >= 2 /\ PreA # 0) =>
          /\ Len(state.stack) = Len(PreStack) - 1
          /\ SubSeq(state.stack, 1, Len(PreRest)) = PreRest
          /\ TruncatedQuotient(state.stack[Len(state.stack)], PreB, PreA)
          /\ OnlyStackChanged
    /\ divide([state EXCEPT !.stack = <<-7, 2>>]).state.stack = <<-3>>

\* b = -5 divided by a = 2 gives -2, not the -3 of a division rounding down
C26_Witness ==
    /\ last.op = "divide"
    /\ PreStack = <<1, -5, 2>>
    /\ state.stack = <<1, -2>>

\* C27: switch pops a and toggles cc exactly when |a| is odd, for negative a too; dp
\* and the entries below a are untouched.
C27_SwitchParity ==
    (last.op = "switch" /\ Len(PreStack) >= 1) =>
        /\ state.stack = SubSeq(PreStack, 1, Len(PreStack) - 1)
        /\ state.cc = IF \E k \in 0..MaxArg : Abs(PreA) = 2 * k + 1
                      THEN toggle(last.pre.cc)
                      ELSE last.pre.cc
        /\ state.dp = last.pre.dp
        /\ state.curr_codel = last.pre.curr_codel
        /\ stdout = last.pre_out

\* a = -3 toggles cc
C27_Witness ==
    /\ last.op = "switch"
    /\ PreStack = <<1, 2, -3>>
    /\ state.stack = <<1, 2>>
    /\ state.cc # last.pre.cc

(***************************************************************************)
(* out(char) (checked under SpecChars).                                    *)
(***************************************************************************)
\* the Unicode scalar values: 0..0xD7FF and 0xE000..0x10FFFF
IsScalarValue(n) == n \in 0..55295 \/ n \in 57344..1114111

\* C28: out(char) on a non-empty stack pops the top value and writes exactly one
\* character, the one with that code, when the value is a Unicode scalar value; for any
\* other value (negative, a surrogate, above 0x10FFFF) nothing is written and the run
\* goes on without error.
C28_OutCharScalarValues ==
    (last.op = "out_char" /\ PreStack # <<>>) =>
        /\ state.stack = SubSeq(PreStack, 1, Len(PreStack) - 1)
        /\ stdout = IF IsScalarValue(PreA)
                    THEN Append(last.pre_out, PreA)
                    ELSE last.pre_out
        /\ status = "running"
        /\ state.dp = last.pre.dp
        /\ state.cc = last.pre.cc
        /\ state.curr_codel = last.pre.curr_codel

\* the surrogate 0xD800 is popped and nothing is written
C28_Witness ==
    /\ last.op = "out_char"
    /\ PreStack = <<1, 55296>>
    /\ state.stack = <<1>>
    /\ stdout = <<>>
    /\ status = "running"

\* the last scalar value, 0x10FFFF, is popped and written as one character
C28_WitnessWritten ==
    /\ last.op = "out_char"
    /\ PreStack = <<1, 1114111>>
    /\ state.stack = <<1>>
    /\ stdout = <<1114111>>

\* values below zero and above 0x10FFFF are popped and nothing is written
C28_WitnessOutOfRange ==
    /\ last.op = "out_char"
    /\ PreA \in {-1, 1114112}
    /\ Len(state.stack) = Len(PreStack) - 1
    /\ stdout = <<>>

\* C29: roll never aborts: on every stack of two or more entries, with depth 0 and
\* depth 1 too, roll completes and the run goes on; with depth 0 the two arguments are
\* removed and the entries below them are untouched.
C29_RollNeverAborts ==
    (last.op = "roll" /\ Len(PreStack) >= 2) =>
        /\ status = "running"
        /\ PreB = 0 => state.stack = PreRest

(***************************************************************************)
(* The length of a step (checked under Spec).                              *)
(***************************************************************************)
\* C30: every step finishes: a step from a coloured codel makes at most 8 escape
\* attempts, and a step from a white codel goes through its loop at most
\* rows x cols x 8 times, once per triple (position, dp, cc), before it finds a
\* coloured codel or meets a triple again.
C30_StepIsBounded ==
    last.op = "step" =>
        /\ last.outcome.result \in {"Ok", "Exit", "Err", "Panic"}
        /\ last.outcome.branch = "colored" =>
              /\ Len(last.outcome.tried) \in 1..8
              /\ last.outcome.trail = <<>>
        /\ last.outcome.branch = "white" =>
              /\ Len(last.outcome.trail) \in 1..(program.rows * program.cols * 8)
              /\ \A i, j \in 1..Len(last.outcome.trail) :
                    last.outcome.trail[i] = last.outcome.trail[j] => i = j
              /\ \A i \in 1..Len(last.outcome.trail) :
                    InGrid(last.outcome.trail[i][1])
              /\ last.outcome.tried = <<>>

\* a step from a coloured codel that used all 8 attempts
C30_Witness ==
    /\ ColoredStep
    /\ Len(last.outcome.tried) = 8
    /\ status = "exit"

\* a step from a white codel that went through its loop 7 times before it met a triple
\* again
C30_WitnessWhite ==
    /\ last.op = "step"
    /\ last.outcome.branch = "white"
    /\ Len(last.outcome.trail) >= 7
    /\ status = "exit"

(***************************************************************************)
(* The destination of a step from a coloured block (checked under Spec).   *)
(***************************************************************************)
\* the last step started on a coloured codel and found a destination
ProductiveColoredStep == ColoredStep /\ last.outcome.next # None

\* C31: in every step that starts in a coloured block and finds a destination, the
\* destination lies outside the source block and has another colour than the source
\* block, so a transition between hue-bearing codels never has hue shift 0 together
\* with lightness shift 0.
C31_DestinationLeavesBlock ==
    ProductiveColoredStep =>
        LET src == last.pre.curr_codel
            dst == unwrap(last.outcome.next)
        IN  /\ InGrid(dst)
            /\ dst \notin program.cb[program.blocks[src]].area
            /\ dst \notin Component(src)
            /\ CodelAt(dst) # CodelAt(src)
            /\ unwrap(last.outcome.curr_color) = CodelAt(src)
            /\ unwrap(last.outcome.next_color) = CodelAt(dst)
            /\ HueBearing(CodelAt(dst)) =>
                  <<HueShift(CodelAt(src), CodelAt(dst)),
                    LightnessShift(CodelAt(src), CodelAt(dst))>> # <<0, 0>>

\* a step out of a block of two codels into a codel of the same hue and another
\* lightness
C31_Witness ==
    /\ ProductiveColoredStep
    /\ Cardinality(Component(last.pre.curr_codel)) = 2
    /\ HueBearing(unwrap(last.outcome.next_color))
    /\ HueShift(unwrap(last.outcome.curr_color), unwrap(last.outcome.next_color)) = 0
    /\ LightnessShift(unwrap(last.outcome.curr_color),
                      unwrap(last.outcome.next_color)) = 2

(***************************************************************************)
(* The algebra of roll (checked under SpecOps).                            *)
(***************************************************************************)
\* the last operation was a roll whose depth is positive and at most the length of the
\* stack left after the two pops
SuccessfulRoll ==
    /\ last.op = "roll"
    /\ Len(PreStack) >= 2
    /\ 0 < PreB
    /\ PreB <= Len(PreRest)

\* w2 is w1 rotated cyclically by some number of places
IsRotation(w1, w2) ==
    /\ Len(w1) = Len(w2)
    /\ \E m \in 0..(Len(w1) - 1) :
          \A i \in 1..Len(w1) : w2[i] = w1[((i - 1 + m) % Len(w1)) + 1]

\* C32: a successful roll (0 < depth <= remaining length) shortens the stack by exactly
\* 2, leaves every entry below the window of the top `depth` entries where it was, and
\* leaves the window a cyclic rotation of what it held; rolling the same window by k and
\* then by -k gives back the stack that followed the first two pops.
C32_RollRotatesWindow ==
    SuccessfulRoll =>
        LET below == Len(PreRest) - PreB
        IN  /\ Len(state.stack) = Len(PreStack) - 2
            /\ SubSeq(state.stack, 1, below) = SubSeq(PreRest, 1, below)
            /\ IsRotation(SubSeq(PreRest, below + 1, Len(PreRest)),
                          SubSeq(state.stack, below + 1, Len(state.stack)))
            /\ roll([state EXCEPT !.stack = state.stack \o <<PreB, -PreA>>]).state.stack
                  = PreRest
            /\ OnlyStackChanged

\* a roll of the top three of four entries by two places that moved the window
C32_Witness ==
    /\ SuccessfulRoll
    /\ PreStack = <<1, 2, 3, 4, 3, 2>>
    /\ Len(state.stack) = 4
    /\ state.stack[1] = 1
    /\ state.stack # PreRest

(***************************************************************************)
(* A run that starts on Black (checked under Spec).                        *)
(***************************************************************************)
\* C33: when the top-left codel (0,0) is Black, the first step returns an error and
\* leaves position, dp, cc, stack and step count as they were; run and run_until stop
\* with that error and no transition is ever executed.
C33_BlackStart ==
    program.codels[1] = "Black" =>
        /\ state = PietState_default
        /\ step_no = 0
        /\ stdout = <<>>
        /\ status \notin {"exit", "panic"}
        /\ status = "returned" => max_steps = Some(0)
        /\ last.op = "step" =>
              /\ last.outcome.result = "Err"
              /\ last.outcome.branch = "black"
              /\ last.outcome.next = None
              /\ last.pre = PietState_default
              /\ last.pre_step = 0
              /\ status = "error"
        /\ status = "error" =>
              /\ last.op = "step"
              /\ ~StepEnabled
              /\ ~FillEnabled

\* run_until(2) on a program whose top-left codel is Black has stopped with the error of
\* its first step
C33_Witness ==
    /\ program.codels[1] = "Black"
    /\ program.rows * program.cols > 1
    /\ max_steps = Some(2)
    /\ last.op = "step"
    /\ status = "error"
    /\ state = PietState_default
    /\ step_no = 0

\* run on such a program has stopped the same way
C33_WitnessRun ==
    /\ program.codels[1] = "Black"
    /\ max_steps = None
    /\ last.op = "step"
    /\ status = "error"

(***************************************************************************)
(* The stepwise engine (checked under SpecStepwise).                       *)
(***************************************************************************)
\* the last call of the stepwise step made a restricted attempt
RestrictedAttempt == last.op = "stepwise_step" /\ last.outcome.restricted

\* C34: the stepwise engine terminates during the call of step that makes the 8th
\* restricted attempt in a row from the current block, the one that brings
\* escape_attempts to 8, and not during a later call: no call returns with
\* escape_attempts at 8, and the call that terminates started with 7.
C34_TerminatesOnEighthAttempt ==
    /\ status = "running" => state.escape_attempts < 8
    /\ status = "exit" => RestrictedAttempt /\ last.pre.escape_attempts = 7

\* what the engine does: the call that terminates is the 9th restricted one in a row
StepwiseExitsOnNinthAttempt ==
    /\ state.escape_attempts \in 0..8
    /\ status = "exit" => RestrictedAttempt /\ last.pre.escape_attempts = 8
    /\ (RestrictedAttempt /\ last.pre.escape_attempts = 8) => status = "exit"

====
